---- MODULE Spec2Model ----
(***************************************************************************)
(* A model of pdfalcon's file-format engine (src/pdfalcon/pdf.py): the     *)
(* object graph built by setup / add_page / add_font / add_text, the       *)
(* serializer with its byte-offset bookkeeping, the parser, and the        *)
(* free-object list of a section body.                                     *)
(*                                                                         *)
(* Text is a sequence of characters (one-character strings); the bytes of  *)
(* a file are a sequence of byte symbols, an ASCII character standing for  *)
(* its own byte.                                                           *)
(***************************************************************************)
EXTENDS Integers, Sequences, FiniteSets, TLC

VARIABLES
    pdf,     \* the PdfFile object and everything reachable from it
    buf,     \* contents of the io buffer handed to write / read
    err,     \* the exception the last call raised, "" when it returned
    last,    \* the last call made and what it returned
    snap     \* the PdfFile as it was when buf was written, and the bytes read

vars == <<pdf, buf, err, last, snap>>

\* a local variable of the code: F is the code that follows the assignment,
\* v the value assigned
Bind(v, F(_)) == F(v)

\* a loop of the code: Body is one pass of it, given the values of the loop's
\* variables; a pass gives Again(the values for the next pass) or what the
\* loop leaves behind, a return value or an exception
Again(s) == [again |-> s]

RECURSIVE Loop(_, _)
Loop(Body(_), r) == IF "again" \in DOMAIN r THEN Loop(Body, Body(r.again)) ELSE r

-----------------------------------------------------------------------------
(* Bounds *)

MaxObjects == 7     \* indirect objects a document may hold before the model stops adding
MaxPages == 2       \* pages a document may hold before the model stops adding
MaxSections == 2    \* sections a document may hold before the model stops adding
MaxFree == 3        \* make_free_object calls on one body before the model stops
MaxAliases == 2     \* font aliases a page may hold before the model stops adding
MaxNameLen == 2     \* bytes of the longest name atom formatted and parsed back
MaxBodyLen == 2     \* bytes after the opening delimiter of an object that is parsed
MaxOps == 2         \* operators of the longest content stream formatted and parsed back
MaxOperands == 3    \* operands before an operator of contents that are parsed
MaxFilters == 2     \* names of the longest Filter array of a stream that is formatted
MaxCloneObjects == 2  \* indirect objects of the object graph that is cloned
MaxBufLen == 4      \* bytes of the longest buffer the readers are run on
MaxBlockSize == 2   \* the largest block size below the default the readers are run with
MaxYields == 6      \* values a generator is asked for before the model stops asking

-----------------------------------------------------------------------------
(* Program constants *)

ZerothGeneration == 65535
DefaultVersion == <<"1", ".", "4">>
DefaultMediaBox == <<0, 0, 612, 792>>
TokenBlockSize == 64
LineBlockSize == 65536

\* Python's None where an integer is expected
NoneVal == -1

\* Python's None where a text is expected
NoneName == <<"<None>">>

-----------------------------------------------------------------------------
(* Names and keywords, as text *)

S_Type == <<"T", "y", "p", "e">>
S_Pages == <<"P", "a", "g", "e", "s">>
S_Page == <<"P", "a", "g", "e">>
S_Kids == <<"K", "i", "d", "s">>
S_Count == <<"C", "o", "u", "n", "t">>
S_Catalog == <<"C", "a", "t", "a", "l", "o", "g">>
S_Parent == <<"P", "a", "r", "e", "n", "t">>
S_Resources == <<"R", "e", "s", "o", "u", "r", "c", "e", "s">>
S_MediaBox == <<"M", "e", "d", "i", "a", "B", "o", "x">>
S_Contents == <<"C", "o", "n", "t", "e", "n", "t", "s">>
S_Font == <<"F", "o", "n", "t">>
S_Subtype == <<"S", "u", "b", "t", "y", "p", "e">>
S_BaseFont == <<"B", "a", "s", "e", "F", "o", "n", "t">>
S_Type1 == <<"T", "y", "p", "e", "1">>
S_Length == <<"L", "e", "n", "g", "t", "h">>
S_Root == <<"R", "o", "o", "t">>
S_Size == <<"S", "i", "z", "e">>
S_Prev == <<"P", "r", "e", "v">>
S_Helvetica == <<"H", "e", "l", "v", "e", "t", "i", "c", "a">>
S_Courier == <<"C", "o", "u", "r", "i", "e", "r">>
S_None == <<"N", "o", "n", "e">>

Digit == <<"0", "1", "2", "3", "4", "5", "6", "7", "8", "9">>

\* str(n) for an integer n >= 0
RECURSIVE Dec(_)
Dec(n) == IF n < 10 THEN <<Digit[n + 1]>> ELSE Dec(n \div 10) \o <<Digit[(n % 10) + 1]>>

\* str(n) for any integer
Str(n) == IF n < 0 THEN <<"-">> \o Dec(0 - n) ELSE Dec(n)

\* str(x) where x is an integer or None
StrOrNone(x) == IF x = -1 THEN S_None ELSE Str(x)

-----------------------------------------------------------------------------
(* PDF values.  Every value is a record with a tag t. *)

VNone == [t |-> "none"]
VName(s) == [t |-> "name", v |-> s]
VInt(n) == [t |-> "int", v |-> n]
VNum(cs) == [t |-> "real", v |-> cs]
VRef(n, g) == [t |-> "ref", n |-> n, g |-> g]
VArr(s) == [t |-> "arr", v |-> s]
VDict(s) == [t |-> "dict", v |-> s]        \* s: sequence of <<key, value>>, insertion order
VStr(cs) == [t |-> "str", v |-> cs]
VCell(c) == [t |-> "cell", v |-> c]        \* a reference to a shared mutable value
VStream(d, ops) == [t |-> "stream", d |-> d, ops |-> ops]
VRaw(cs) == [t |-> "raw", v |-> cs]        \* a bare token handed back by the parser
VBool(x) == [t |-> "bool", v |-> x]
VNull == [t |-> "null"]
VHex(cs) == [t |-> "hex", v |-> cs]
VComment(cs) == [t |-> "comment", v |-> cs]

\* dict[key] = value, Python semantics: replace in place or append
RECURSIVE DictSet(_, _, _)
DictSet(s, k, v) ==
    IF s = <<>> THEN << <<k, v>> >>
    ELSE IF Head(s)[1] = k THEN << <<k, v>> >> \o Tail(s)
    ELSE <<Head(s)>> \o DictSet(Tail(s), k, v)

DictHas(s, k) == \E i \in 1..Len(s) : s[i][1] = k

DictGet(s, k) == s[CHOOSE i \in 1..Len(s) : s[i][1] = k][2]

-----------------------------------------------------------------------------
(* The object graph *)

\* PdfIndirectObject.__init__
NewIndirectObject ==
    [object_number |-> NoneVal, generation_number |-> NoneVal,
     attached |-> FALSE, free |-> FALSE, next_free_object |-> 0,
     contents |-> VNone]

\* PdfIndirectObject.attach
Attach(o, n, g, c) ==
    [o EXCEPT !.object_number = n, !.generation_number = g,
              !.attached = TRUE, !.contents = c]

\* PdfIndirectObject.release
Release(o, next) == [o EXCEPT !.next_free_object = next, !.free = TRUE]

\* PdfIndirectObject.ref, PdfIndirectObject.object_key
RefOf(o) == VRef(o.object_number, o.generation_number)
KeyOf(o) == <<o.object_number, o.generation_number>>

\* FileSection.__init__: body, crt_section and trailer are None
NewSection ==
    [inited |-> FALSE, objects |-> <<>>, zeroth_object |-> 0,
     free_object_list_tail |-> 0, object_byte_offset_map |-> <<>>,
     subsections |-> <<>>, size |-> 0, crt_byte_offset |-> NoneVal,
     trailer_dict |-> VNone]

\* CrtEntry.__init__ with pdf_object set
NewEntry(id) ==
    [pdf_object |-> id, object_number |-> NoneVal,
     generation_number |-> NoneVal, first_item |-> NoneVal, free |-> "None"]

\* PdfFile.__init__
NewPdfFile(v) ==
    [version |-> v, header |-> FALSE, sections |-> <<>>, heap |-> <<>>,
     cells |-> <<>>, catalog |-> 0,
     tree |-> [pdf_object |-> 0, children |-> <<>>, kids |-> 0, count |-> 0,
               resources |-> 0, media_box |-> VNone],
     pages |-> <<>>, fonts |-> <<>>, object_store |-> <<>>]

\* result of a call: the document after it, the exception raised, the value returned
R(d, e, ret) == [d |-> d, err |-> e, ret |-> ret]

\* tuple order of Python's sorted() on (object#, generation#) keys
KeyLess(a, b) == a[1] < b[1] \/ (a[1] = b[1] /\ a[2] < b[2])

MaxKey(keys) == CHOOSE k \in keys : \A j \in keys : j = k \/ KeyLess(j, k)

\* f[k] = v on a Python dict
Put(f, k, v) == [x \in DOMAIN f \cup {k} |-> IF x = k THEN v ELSE f[x]]

\* FileBody.release_pdf_object on object id of section sec
ReleasePdfObject(hp, sec, id) ==
    Bind([hp EXCEPT ![id] = Release(hp[id], sec.zeroth_object)], LAMBDA h1 :
    Bind([h1 EXCEPT ![sec.free_object_list_tail].next_free_object = id], LAMBDA h2 :
        [heap |-> h2, sec |-> [sec EXCEPT !.free_object_list_tail = id]]))

\* FileBody.make_free_object
MakeFreeObject(hp, sec, n, g) ==
    Bind(Len(hp) + 1, LAMBDA id :
    Bind(sec.zeroth_object = 0, LAMBDA first :
    Bind(IF first
         THEN [sec EXCEPT !.zeroth_object = id, !.free_object_list_tail = id]
         ELSE sec, LAMBDA s1 :
    Bind(Append(hp, Attach(NewIndirectObject, n, g, VNone)), LAMBDA h1 :
    Bind([s1 EXCEPT !.objects = Put(s1.objects, <<n, g>>, id)], LAMBDA s2 :
    Bind(ReleasePdfObject(h1, s2, id), LAMBDA r :
        IF first /\ <<n, g>> # <<0, ZerothGeneration>>
        THEN [heap |-> hp, sec |-> sec, id |-> 0, err |-> "PdfBuildError"]
        ELSE [heap |-> r.heap, sec |-> r.sec, id |-> id, err |-> ""]))))))

\* FileBody.add_pdf_object: the next object number of this body, generation 0
NextObjectNumberSkips(sec) == MaxKey(DOMAIN sec.objects)[1] + 2

NextObjectNumberReuses(sec) == MaxKey(DOMAIN sec.objects)[1]

NextObjectNumber(sec) == MaxKey(DOMAIN sec.objects)[1] + 1

BodyAddPdfObject(hp, sec, c) ==
    Bind(Len(hp) + 1, LAMBDA id :
    Bind(NextObjectNumber(sec), LAMBDA n :
        [heap |-> Append(hp, Attach(NewIndirectObject, n, 0, c)),
         sec |-> [sec EXCEPT !.objects = Put(sec.objects, <<n, 0>>, id)],
         id |-> id]))

\* CrtSection.add_pdf_object: a new entry in the last subsection, trailer
\* Size + 1; after a parse the trailer's size is the /Size object of the
\* trailer dictionary, which therefore changes with it
CrtAddPdfObject(sec, id) ==
    Bind(Len(sec.subsections), LAMBDA k :
        [sec EXCEPT !.subsections[k] = Append(@, NewEntry(id)),
                    !.size = @ + 1,
                    !.trailer_dict =
                        IF @.t = "dict" /\ DictHas(@.v, S_Size)
                        THEN VDict(DictSet(@.v, S_Size, VInt(sec.size + 1)))
                        ELSE @])

\* FileSection.setup: the zeroth object and its xref entry
SectionSetup(hp) ==
    Bind(MakeFreeObject(hp, [NewSection EXCEPT !.inited = TRUE], 0, ZerothGeneration), LAMBDA m :
    Bind([m.sec EXCEPT !.subsections = << <<>> >>], LAMBDA s1 :
        [heap |-> m.heap, sec |-> CrtAddPdfObject(s1, m.sec.zeroth_object)]))

\* PdfFile.add_pdf_object -> FileSection.add_pdf_object on sections[-1]
AddPdfObject(d, c) ==
    Bind(Len(d.sections), LAMBDA k :
    Bind(d.sections[k], LAMBDA sec :
    Bind(BodyAddPdfObject(d.heap, sec, c), LAMBDA b :
    Bind(CrtAddPdfObject(b.sec, b.id), LAMBDA s2 :
        IF ~sec.inited
        THEN R(d, "AttributeError", 0)
        ELSE R([d EXCEPT !.heap = b.heap, !.sections[k] = s2], "", b.id)))))

-----------------------------------------------------------------------------
(* Text and bytes *)

K_obj == <<"o", "b", "j">>
K_endobj == <<"e", "n", "d", "o", "b", "j">>
K_xref == <<"x", "r", "e", "f">>
K_trailer == <<"t", "r", "a", "i", "l", "e", "r">>
K_startxref == <<"s", "t", "a", "r", "t", "x", "r", "e", "f">>
K_eof == <<"%", "%", "E", "O", "F">>
K_stream == <<"s", "t", "r", "e", "a", "m">>
K_endstream == <<"e", "n", "d", "s", "t", "r", "e", "a", "m">>
K_pdf == <<"%", "P", "D", "F">>
K_dictOpen == <<"<", "<", "\n", " ", " ">>
K_dictClose == <<"\n", ">", ">">>

\* the binary-marker comment of the header, four characters above U+007F
HeaderMarker == <<"%", "a_circumflex", "a_tilde", "I_diaeresis", "O_acute">>

\* the UTF-8 encoding of the characters that are not ASCII
Utf8Table ==
    [a_circumflex |-> <<"xC3", "xA2">>, a_tilde |-> <<"xC3", "xA3">>,
     I_diaeresis |-> <<"xC3", "x8F">>, O_acute |-> <<"xC3", "x93">>,
     e_acute |-> <<"xC3", "xA9">>]

\* str.encode('utf-8'): an ASCII character is its own byte
RECURSIVE Encode(_)
Encode(cs) ==
    IF cs = <<>> THEN <<>>
    ELSE IF Len(cs) = 1
    THEN (IF cs[1] \in DOMAIN Utf8Table THEN Utf8Table[cs[1]] ELSE cs)
    ELSE Bind(Len(cs) \div 2, LAMBDA h :
             Encode(SubSeq(cs, 1, h)) \o Encode(SubSeq(cs, h + 1, Len(cs))))

\* sep.join(parts)
RECURSIVE Join(_, _)
Join(parts, sep) ==
    IF parts = <<>> THEN <<>>
    ELSE IF Len(parts) = 1 THEN parts[1]
    ELSE Bind(Len(parts) \div 2, LAMBDA h :
             Join(SubSeq(parts, 1, h), sep) \o sep \o Join(SubSeq(parts, h + 1, Len(parts)), sep))

\* ''.join(parts)
Concat(parts) == Join(parts, <<>>)

\* f"{n:0w}"
RECURSIVE Pad(_, _)
Pad(cs, w) == IF Len(cs) >= w THEN cs ELSE Pad(<<"0">> \o cs, w)

-----------------------------------------------------------------------------
(* The document hierarchy *)

\* OPTIONS['font']: the default and the names the model draws from the options
DefaultFont == S_Helvetica
FontOptions == {S_Helvetica, S_Courier}

NewCell(d, v) == [d EXCEPT !.cells = Append(@, v)]

\* content-stream operators: mnemonic, operands, nested operators
Op(m, args, ops) == [op |-> m, args |-> args, ops |-> ops]

\* PageTreeNode.__init__ and PageTreeNode.setup
PageTreeSetup(d) ==
    Bind(Len(d.cells) + 1, LAMBDA kids :
    Bind(Len(d.cells) + 2, LAMBDA count :
    Bind(Len(d.cells) + 3, LAMBDA res :
    Bind([d EXCEPT !.cells = @ \o <<VArr(<<>>), VInt(0),
                                   VDict(<< <<S_Font, VDict(<<>>)>> >>)>>], LAMBDA d1 :
    Bind(AddPdfObject(d1, VDict(<< <<S_Type, VName(S_Pages)>>,
                                  <<S_Kids, VCell(kids)>>,
                                  <<S_Count, VCell(count)>> >>)), LAMBDA a :
        IF a.err # "" THEN R(d, a.err, 0)
        ELSE R([a.d EXCEPT !.tree = [pdf_object |-> a.ret, children |-> <<>>,
                                     kids |-> kids, count |-> count,
                                     resources |-> res,
                                     media_box |-> VArr([i \in 1..4 |-> VInt(DefaultMediaBox[i])])]],
               "", a.ret))))))

\* DocumentCatalog.setup
CatalogSetup(d) ==
    Bind(PageTreeSetup(d), LAMBDA t :
    Bind(AddPdfObject(t.d, VDict(<< <<S_Type, VName(S_Catalog)>>,
                                   <<S_Pages, RefOf(t.d.heap[t.ret])>> >>)), LAMBDA a :
        IF t.err # "" THEN R(d, t.err, 0)
        ELSE IF a.err # "" THEN R(d, a.err, 0)
        ELSE R([a.d EXCEPT !.catalog = a.ret], "", a.ret)))

\* PdfFile.setup
PdfSetup(d) ==
    Bind(SectionSetup(d.heap), LAMBDA s :
    Bind([d EXCEPT !.header = TRUE, !.heap = s.heap, !.sections = <<s.sec>>], LAMBDA d1 :
        CatalogSetup(d1)))

\* PageTreeNode.add_page: self.kids.append(page.pdf_object.ref)
PrependKid(kids, ref) == <<ref>> \o kids

AppendKid(kids, ref) == Append(kids, ref)

\* PageObject.setup, then the rest of PageTreeNode.add_page
TreeAddPage(d) ==
    Bind(d.tree.resources, LAMBDA res :           \* get_inherited_entry('resources', page)
    Bind(d.tree.media_box, LAMBDA mb :            \* get_inherited_entry('media_box', page)
    Bind(Len(d.cells) + 1, LAMBDA contents :
    Bind(NewCell(d, VArr(<<>>)), LAMBDA d1 :
    Bind(AddPdfObject(d1, VDict(<< <<S_Type, VName(S_Page)>>,
                                  <<S_Parent, RefOf(d.heap[d.tree.pdf_object])>>,
                                  <<S_Resources, VCell(res)>>,
                                  <<S_MediaBox, mb>> >>)), LAMBDA a :
    Bind([pdf_object |-> a.ret, resources |-> res, media_box |-> mb,
          contents |-> contents, objects |-> <<>>, font_number |-> 0], LAMBDA page :
    Bind(Len(d.pages) + 1, LAMBDA idx :
    Bind([a.d EXCEPT !.pages = Append(@, page),
                     !.tree.children = Append(@, idx),
                     !.cells[d.tree.kids].v = AppendKid(@, RefOf(a.d.heap[a.ret])),
                     !.cells[d.tree.count].v = @ + 1], LAMBDA d2 :
        IF res = 0 \/ mb.t = "none" THEN R(d, "PdfBuildError", 0)
        ELSE IF a.err # "" THEN R(d, a.err, 0)
        ELSE R(d2, "", idx)))))))))

\* PdfFile.add_page
PdfAddPage(d) ==
    IF Len(d.sections) = 0 THEN R(d, "PdfBuildError", 0)
    ELSE IF d.catalog = 0 THEN R(d, "AttributeError", 0)
    ELSE TreeAddPage(d)

\* PdfFile.add_update
PdfAddUpdate(d) ==
    IF Len(d.sections) = 0 THEN R(d, "PdfBuildError", 0)
    ELSE R([d EXCEPT !.sections = Append(@, NewSection)], "", Len(d.sections) + 1)

\* what add_font puts into PdfFile.fonts: the page (self), not the Font built
FontCacheValue(pageObject, fontObject) == pageObject

\* PageObject.add_font on page p
PageAddFont(d, p, name) ==
    Bind(IF name = NoneName THEN DefaultFont ELSE name, LAMBDA font_name :
    Bind(font_name \in DOMAIN d.fonts, LAMBDA cached :
    Bind(AddPdfObject(d, VDict(<< <<S_Type, VName(S_Font)>>,
                                 <<S_Subtype, VName(S_Type1)>>,
                                 <<S_BaseFont, VName(font_name)>> >>)), LAMBDA a :
    Bind(IF cached THEN d
         ELSE [a.d EXCEPT !.fonts =
                   Put(@, font_name, FontCacheValue(d.pages[p].pdf_object, a.ret))], LAMBDA d1 :
    Bind(IF cached THEN d.fonts[font_name] ELSE a.ret, LAMBDA font :
    Bind(d.pages[p].font_number + 1, LAMBDA n :
    Bind(<<"F">> \o Str(n), LAMBDA alias :
    Bind(d.pages[p].resources, LAMBDA res :
    Bind(DictGet(d1.cells[res].v, S_Font), LAMBDA fd :
    Bind([d1 EXCEPT !.pages[p].font_number = n,
                    !.cells[res].v =
                        DictSet(@, S_Font,
                                VDict(DictSet(fd.v, alias, RefOf(d1.heap[font]))))], LAMBDA d2 :
        IF font_name \notin FontOptions THEN R(d, "PdfBuildError", <<>>)
        ELSE IF ~cached /\ a.err # "" THEN R(d, a.err, <<>>)
        ELSE IF ~DictHas(d1.cells[res].v, S_Font)
             THEN R([d1 EXCEPT !.pages[p].font_number = n], "KeyError", <<>>)
        ELSE R(d2, "", alias)))))))))))

\* PageObject.add_content_stream on page p
PageAddContentStream(d, p, ops) ==
    Bind(AddPdfObject(d, VStream(VNone, ops)), LAMBDA a :
    Bind(d.pages[p].pdf_object, LAMBDA po :
    Bind(d.pages[p].contents, LAMBDA c :
    Bind(a.d.heap[po].contents.v, LAMBDA pc :
    Bind(IF DictHas(pc, S_Contents) THEN a.d
         ELSE [a.d EXCEPT !.heap[po].contents.v = DictSet(pc, S_Contents, VCell(c))], LAMBDA d1 :
    Bind([d1 EXCEPT !.cells[c].v = Append(@, RefOf(a.d.heap[a.ret])),
                    !.pages[p].objects =
                        Append(@, [pdf_object |-> a.ret, contents |-> ops])], LAMBDA d2 :
        IF a.err # "" THEN R(d, a.err, 0)
        ELSE R(d2, "", a.ret)))))))

\* a Python number or None as an operand
Num(x) == IF x = NoneVal THEN VNone ELSE VInt(x)

\* the StreamTextObject add_text builds
TextObjectReordered(alias, text, size, line_size) ==
    Op("BT", <<>>,
       << Op("Tf", <<VName(alias), Num(size)>>, <<>>),
          Op("Tm", <<VInt(1), VInt(0), VInt(0), VInt(1), VInt(0), VInt(0)>>, <<>>),
          Op("TL", <<Num(line_size)>>, <<>>),
          Op("Tj", <<VStr(text)>>, <<>>),
          Op("T*", <<>>, <<>>) >>)

TextObject(alias, text, size, line_size) ==
    Op("BT", <<>>,
       << Op("Tm", <<VInt(1), VInt(0), VInt(0), VInt(1), VInt(0), VInt(0)>>, <<>>),
          Op("Tf", <<VName(alias), Num(size)>>, <<>>),
          Op("TL", <<Num(line_size)>>, <<>>),
          Op("Tj", <<VStr(text)>>, <<>>),
          Op("T*", <<>>, <<>>) >>)

\* translate_x or 0
OrZero(x) == IF x = NoneVal THEN 0 ELSE x

\* PageObject.add_text(text, font_name, size, line_size, translate_x, translate_y)
PageAddText(d, p, text, name, size, line_size, tx, ty) ==
    Bind(PageAddFont(d, p, name), LAMBDA f :
    Bind(TextObject(f.ret, text, size, line_size), LAMBDA text_obj :
    Bind(Op("cm", <<VInt(1), VInt(0), VInt(0), VInt(1),
                   VInt(OrZero(tx)), VInt(OrZero(ty))>>, <<>>), LAMBDA cm :
    Bind(PageAddContentStream(f.d, p,
             <<Op("q", <<>>, <<>>), cm, text_obj, Op("Q", <<>>, <<>>)>>), LAMBDA c :
        IF f.err # "" THEN R(f.d, f.err, 0)
        ELSE IF c.err # "" THEN R(c.d, c.err, 0)
        ELSE R(c.d, "", c.ret)))))

-----------------------------------------------------------------------------
(* The serializer *)

\* format() of a value; d resolves the values that objects share
RECURSIVE Fmt(_, _)
RECURSIVE FmtOp(_, _)

\* str(x) of an operand of an operator built by add_text
FmtOperand(d, v) == IF v.t = "none" THEN S_None ELSE Fmt(d, v)

\* GraphicsOperation.format / StreamTextObject.format
FmtOp(d, o) ==
    IF o.op = "BT"
    THEN Join(<<(<<"B", "T", " ">>)>> \o [i \in 1..Len(o.ops) |-> FmtOp(d, o.ops[i])]
              \o <<(<<"E", "T">>)>>, <<"\n">>)
    ELSE IF o.op = "Tj"
    THEN <<"(">> \o o.args[1].v \o <<")", " ", "T", "j">>
    ELSE IF o.op = "q" THEN <<"q">>
    ELSE IF o.op = "Q" THEN <<"Q">>
    ELSE IF o.op = "T*" THEN <<"T", "*">>
    ELSE Join([i \in 1..Len(o.args) |-> FmtOperand(d, o.args[i])]
              \o <<IF o.op = "cm" THEN <<"c", "m">>
                    ELSE IF o.op = "Tm" THEN <<"T", "m">>
                    ELSE IF o.op = "Tf" THEN <<"T", "f">>
                    ELSE <<"T", "L">> >>, <<" ">>)

\* the payload of a stream: '\n'.join of its operators
StreamPayload(d, ops) == Join([i \in 1..Len(ops) |-> FmtOp(d, ops[i])], <<"\n">>)

\* the /Length PdfStream.format writes: len() of the payload text
StreamLength(payload) == Len(payload)

Fmt(d, v) ==
    IF v.t = "cell" THEN Fmt(d, d.cells[v.v])
    ELSE IF v.t = "name" THEN <<"/">> \o v.v
    ELSE IF v.t = "int" THEN Str(v.v)
    ELSE IF v.t = "real" THEN v.v
    ELSE IF v.t = "none" THEN S_None
    ELSE IF v.t = "ref" THEN Str(v.n) \o <<" ">> \o Str(v.g) \o <<" ", "R">>
    ELSE IF v.t = "str" THEN <<"(">> \o v.v \o <<")">>
    ELSE IF v.t = "hex" THEN <<"<">> \o v.v \o <<">">>
    ELSE IF v.t = "comment" THEN <<"%">> \o v.v
    ELSE IF v.t = "null" THEN <<"n", "u", "l", "l">>
    ELSE IF v.t = "bool"
    THEN (IF v.v THEN <<"t", "r", "u", "e">> ELSE <<"f", "a", "l", "s", "e">>)
    ELSE IF v.t = "arr"
    THEN <<"[", " ">> \o Join([i \in 1..Len(v.v) |-> Fmt(d, v.v[i])], <<" ">>) \o <<" ", "]">>
    ELSE IF v.t = "dict"
    THEN K_dictOpen
         \o Join([i \in 1..Len(v.v) |-> <<"/">> \o v.v[i][1] \o <<" ">> \o Fmt(d, v.v[i][2])],
                 <<"\n">>)
         \o K_dictClose
    ELSE IF v.t = "stream"
    THEN Bind(StreamPayload(d, v.ops), LAMBDA payload :
         Bind((IF v.d.t = "dict" THEN v.d.v ELSE <<>>)
              \o << <<S_Length, VInt(StreamLength(payload))>> >>, LAMBDA sd :
             Fmt(d, VDict(sd)) \o <<"\n">> \o K_stream \o <<"\n">> \o payload
             \o <<"\n">> \o K_endstream))
    ELSE v.v

\* the exception format() of a value raises, "" if none
FmtError(v) ==
    IF v.t = "none" THEN "AttributeError"
    ELSE IF v.t = "stream" /\ v.d.t = "dict" /\ DictHas(v.d.v, S_Length) THEN "TypeError"
    ELSE ""

\* PdfIndirectObject.format
FmtIndirectObject(d, o) ==
    StrOrNone(o.object_number) \o <<" ">> \o StrOrNone(o.generation_number) \o <<" ">> \o K_obj
    \o <<"\n">> \o Fmt(d, o.contents) \o <<"\n">> \o K_endobj

\* the keys of a body in the order FileBody.format writes them
RECURSIVE SortedKeys(_)
SortedKeys(keys) ==
    IF keys = {} THEN <<>>
    ELSE Bind(MaxKey(keys), LAMBDA k :  Append(SortedKeys(keys \ {k}), k))

\* FileBody.format: the objects it writes, in order
BodyObjects(d, sec) ==
    Bind(SortedKeys(DOMAIN sec.objects), LAMBDA ks :
    Bind([i \in 1..Len(ks) |-> sec.objects[ks[i]]], LAMBDA ids :
        SelectSeq(ids, LAMBDA id : d.heap[id].attached /\ d.heap[id].object_number # 0)))

\* the length FileBody.format and FileSection.format advance the offset by: len() of the text
Advance(text) == Len(text)

\* FileBody.format: the offset it records for the i-th object written, from offset start
RECURSIVE BodyOffset(_, _, _)
BodyOffset(texts, i, start) ==
    IF i = 1 THEN start
    ELSE BodyOffset(texts, i - 1, start) + Advance(texts[i - 1]) + 1

\* FileBody.format: text, object_byte_offset_map, exception
FmtBody(d, sec, start) ==
    Bind(BodyObjects(d, sec), LAMBDA ids :
    Bind({i \in 1..Len(ids) : FmtError(d.heap[ids[i]].contents) # ""}, LAMBDA bad :
    Bind([i \in 1..Len(ids) |-> FmtIndirectObject(d, d.heap[ids[i]])], LAMBDA texts :
    Bind({KeyOf(d.heap[ids[i]]) : i \in 1..Len(ids)}, LAMBDA keys :
        IF bad # {}
        THEN [err |-> FmtError(d.heap[ids[CHOOSE i \in bad : \A j \in bad : i <= j]].contents),
              text |-> <<>>, map |-> <<>>]
        ELSE [err |-> "",
              text |-> Join(texts, <<"\n">>),
              map |-> [k \in keys |->
                         BodyOffset(texts,
                                    CHOOSE i \in 1..Len(ids) :
                                        /\ KeyOf(d.heap[ids[i]]) = k
                                        /\ \A j \in 1..Len(ids) :
                                              KeyOf(d.heap[ids[j]]) = k => j <= i,
                                    start)]]))))

\* CrtEntry.format: text and exception
FmtEntry(d, map, e) ==
    Bind(d.heap[e.pdf_object], LAMBDA o :
    Bind(IF o.free /\ o.generation_number # ZerothGeneration
         THEN o.generation_number + 1 ELSE o.generation_number, LAMBDA gen :
    Bind(IF o.free THEN d.heap[o.next_free_object].object_number
         ELSE map[KeyOf(o)], LAMBDA first :
        IF e.pdf_object = 0 THEN [err |-> "PdfFormatError", text |-> <<>>]
        ELSE IF o.free /\ o.next_free_object = 0 THEN [err |-> "AttributeError", text |-> <<>>]
        ELSE IF ~o.free /\ KeyOf(o) \notin DOMAIN map THEN [err |-> "KeyError", text |-> <<>>]
        ELSE [err |-> "",
              text |-> Pad(Str(first), 10) \o <<" ">> \o Pad(Str(gen), 5) \o <<" ">>
                       \o <<IF o.free THEN "f" ELSE "n">> \o <<" ", "\n">>])))

\* the first exception of a sequence of results, "" if none
FirstError(rs) ==
    IF \A i \in 1..Len(rs) : rs[i].err = "" THEN ""
    ELSE rs[CHOOSE i \in 1..Len(rs) :
                rs[i].err # "" /\ \A j \in 1..(i - 1) : rs[j].err = ""].err

\* CrtSubsection.format
FmtSubsection(d, map, entries) ==
    Bind([i \in 1..Len(entries) |-> FmtEntry(d, map, entries[i])], LAMBDA rs :
        IF Len(entries) = 0 THEN [err |-> "PdfFormatError", text |-> <<>>]
        ELSE IF entries[1].pdf_object = 0 THEN [err |-> "AttributeError", text |-> <<>>]
        ELSE IF FirstError(rs) # "" THEN [err |-> FirstError(rs), text |-> <<>>]
        ELSE [err |-> "",
              text |-> StrOrNone(d.heap[entries[1].pdf_object].object_number) \o <<" ">>
                       \o Str(Len(entries)) \o <<"\n">>
                       \o Concat([i \in 1..Len(entries) |-> rs[i].text])])

\* CrtSection.format
FmtCrtSection(d, sec, map) ==
    Bind([i \in 1..Len(sec.subsections) |-> FmtSubsection(d, map, sec.subsections[i])], LAMBDA rs :
        IF FirstError(rs) # "" THEN [err |-> FirstError(rs), text |-> <<>>]
        ELSE [err |-> "",
              text |-> K_xref \o <<"\n">>
                       \o Join([i \in 1..Len(rs) |-> rs[i].text], <<"\n">>)])

\* FileTrailer.format
FmtTrailer(d, sec, crt_byte_offset) ==
    Bind(VDict(<< <<S_Root, IF d.heap[d.catalog].attached
                            THEN RefOf(d.heap[d.catalog]) ELSE VNone>>,
                  <<S_Size, VInt(sec.size)>> >>), LAMBDA built :
    Bind(IF sec.trailer_dict.t = "dict" /\ sec.trailer_dict.v # <<>>
         THEN sec.trailer_dict ELSE built, LAMBDA dict :
        K_trailer \o <<"\n">> \o Fmt(d, dict) \o <<"\n">> \o K_startxref \o <<"\n">>
        \o Str(crt_byte_offset) \o <<"\n">> \o K_eof))

\* FileSection.format from offset cur: text, the offset after it, the
\* section with its format-time fields set, exception
FmtSection(d, sec, cur) ==
    Bind(FmtBody(d, sec, cur), LAMBDA b :
    Bind(cur + Advance(b.text) + 1, LAMBDA crt_byte_offset :
    Bind(FmtCrtSection(d, sec, b.map), LAMBDA x :
    Bind(FmtTrailer(d, sec, crt_byte_offset), LAMBDA t :
    Bind([sec EXCEPT !.object_byte_offset_map = b.map,
                     !.crt_byte_offset = crt_byte_offset], LAMBDA sec2 :
        IF ~sec.inited THEN [err |-> "AttributeError", text |-> <<>>, cur |-> cur, sec |-> sec]
        ELSE IF b.err # "" THEN [err |-> b.err, text |-> <<>>, cur |-> cur, sec |-> sec]
        ELSE IF x.err # "" THEN [err |-> x.err, text |-> <<>>, cur |-> cur, sec |-> sec2]
        ELSE IF d.catalog = 0 /\ sec.trailer_dict.t # "dict"
             THEN [err |-> "AttributeError", text |-> <<>>, cur |-> cur, sec |-> sec2]
        ELSE [err |-> "",
              text |-> Join(<<b.text, x.text, t>>, <<"\n">>),
              cur |-> crt_byte_offset + Advance(x.text) + 1 + Advance(t) + 1,
              sec |-> sec2])))))

\* FileHeader.format
FmtHeader(d) == K_pdf \o <<"-">> \o d.version \o <<"\n">> \o HeaderMarker

\* PdfFile.format, sections i.. from offset cur
RECURSIVE FmtSections(_, _, _)
FmtSections(d, i, cur) ==
    IF i > Len(d.sections) THEN [err |-> "", texts |-> <<>>, secs |-> <<>>]
    ELSE Bind(FmtSection(d, d.sections[i], cur), LAMBDA f :
         Bind(FmtSections(d, i + 1, f.cur + 1), LAMBDA rest :
             IF f.err # ""
             THEN [err |-> f.err, texts |-> <<>>,
                   secs |-> <<f.sec>> \o SubSeq(d.sections, i + 1, Len(d.sections))]
             ELSE [err |-> rest.err, texts |-> <<f.text>> \o rest.texts,
                   secs |-> <<f.sec>> \o rest.secs]))

\* PdfFile.format: the text, the document with its format-time fields set
PdfFormat(d) ==
    Bind(FmtHeader(d), LAMBDA h :
    Bind(FmtSections(d, 1, Len(Encode(h)) + 1), LAMBDA f :
        IF Len(d.sections) = 0 THEN [err |-> "PdfBuildError", text |-> <<>>, d |-> d]
        ELSE IF ~d.header THEN [err |-> "AttributeError", text |-> <<>>, d |-> d]
        ELSE [err |-> f.err,
              text |-> Join(<<h>> \o f.texts, <<"\n">>),
              d |-> [d EXCEPT !.sections = f.secs]]))

\* PdfFile.write on a writable io.BytesIO: the bytes and the document after it
PdfWrite(d) ==
    Bind(PdfFormat(d), LAMBDA f :
        [err |-> f.err, bytes |-> IF f.err = "" THEN Encode(f.text) ELSE <<>>, d |-> f.d])

-----------------------------------------------------------------------------
(* The reader: bytes, tokens and lines *)

\* whitespace_chars and delimiters of read_pdf_tokens
WhitespaceChars == {"x00", "\t", "\n", "x0C", "\r", " "}
Delimiters == {"(", ")", "<", ">", "[", "]", "{", "}", "/", "%"}

\* the bytes bytes.strip() and bytes.split() take for whitespace
StripChars == {" ", "\t", "\n", "\r", "x0B", "x0C"}

Min(a, b) == IF a < b THEN a ELSE b

\* the first index in lo..hi whose byte is in S, hi + 1 if there is none
FirstIn(b, lo, hi, S) ==
    IF \E k \in lo..hi : b[k] \in S
    THEN CHOOSE k \in lo..hi : b[k] \in S /\ \A f \in lo..(k - 1) : b[f] \notin S
    ELSE hi + 1

\* the first index in lo..hi whose byte is not in S, hi + 1 if there is none
FirstNotIn(b, lo, hi, S) ==
    IF \E k \in lo..hi : b[k] \notin S
    THEN CHOOSE k \in lo..hi : b[k] \notin S /\ \A f \in lo..(k - 1) : b[f] \in S
    ELSE hi + 1

\* the last index in lo..hi whose byte is not in S, lo - 1 if there is none
LastNotIn(b, lo, hi, S) ==
    IF \E k \in lo..hi : b[k] \notin S
    THEN CHOOSE k \in lo..hi : b[k] \notin S /\ \A f \in (k + 1)..hi : b[f] \in S
    ELSE lo - 1

\* bytes.strip()
Strip(cs) ==
    Bind(FirstNotIn(cs, 1, Len(cs), StripChars), LAMBDA lo :
        IF lo > Len(cs) THEN <<>>
        ELSE SubSeq(cs, lo, LastNotIn(cs, 1, Len(cs), StripChars)))

\* bytes.split(): the whitespace-separated words of cs from index i on
RECURSIVE SplitFrom(_, _)
SplitFrom(cs, i) ==
    Bind(FirstNotIn(cs, i, Len(cs), StripChars), LAMBDA s :
    Bind(FirstIn(cs, s, Len(cs), StripChars), LAMBDA e :
        IF s > Len(cs) THEN <<>>
        ELSE <<SubSeq(cs, s, e - 1)>> \o SplitFrom(cs, e)))

Split(cs) == SplitFrom(cs, 1)

IsDigits(cs) == cs # <<>> /\ \A i \in 1..Len(cs) : \E k \in 1..10 : Digit[k] = cs[i]

DigitValue(c) == (CHOOSE k \in 1..10 : Digit[k] = c) - 1

\* int(cs) for a text of decimal digits
RECURSIVE DecValue(_)
DecValue(cs) ==
    IF Len(cs) = 1 THEN DigitValue(cs[1])
    ELSE 10 * DecValue(SubSeq(cs, 1, Len(cs) - 1)) + DigitValue(cs[Len(cs)])

\* a token without its sign
Unsigned(tok) == IF tok # <<>> /\ tok[1] \in {"+", "-"} THEN Tail(tok) ELSE tok

\* int(tok) does not raise ValueError: an optional sign and decimal digits
IsInt(tok) == IsDigits(Unsigned(tok))

IntValue(tok) ==
    IF tok[1] = "-" THEN 0 - DecValue(Unsigned(tok)) ELSE DecValue(Unsigned(tok))

\* float(tok) does not raise ValueError: digits around at most one point
IsFloat(tok) ==
    Bind(Unsigned(tok), LAMBDA u :
        /\ \E i \in 1..Len(u) : IsDigits(<<u[i]>>)
        /\ \A i \in 1..Len(u) : u[i] = "." \/ IsDigits(<<u[i]>>)
        /\ Cardinality({i \in 1..Len(u) : u[i] = "."}) <= 1)

\* str(float(tok)) for a token float() accepts
FloatText(tok) ==
    Bind(Unsigned(tok), LAMBDA u :
    Bind(FirstIn(u, 1, Len(u), {"."}), LAMBDA dot :
    Bind(SubSeq(u, 1, dot - 1), LAMBDA ip :
    Bind(SubSeq(u, dot + 1, Len(u)), LAMBDA fp :
    Bind(FirstNotIn(ip, 1, Len(ip), {"0"}), LAMBDA i1 :
    Bind(LastNotIn(fp, 1, Len(fp), {"0"}), LAMBDA f2 :
    Bind(IF i1 > Len(ip) THEN <<"0">> ELSE SubSeq(ip, i1, Len(ip)), LAMBDA int :
    Bind(IF f2 < 1 THEN <<"0">> ELSE SubSeq(fp, 1, f2), LAMBDA frac :
    Bind(tok[1] = "-" /\ (int # <<"0">> \/ frac # <<"0">>), LAMBDA neg :
        (IF neg THEN <<"-">> ELSE <<>>) \o int \o <<".">> \o frac)))))))))

\* the bytes of the characters that are not ASCII
HighBytes == UNION {{Utf8Table[c][1], Utf8Table[c][2]} : c \in DOMAIN Utf8Table}

\* bytes.decode(): the text, or UnicodeDecodeError
RECURSIVE Decode(_)
Decode(bs) ==
    IF bs = <<>> THEN [err |-> "", text |-> <<>>]
    ELSE IF bs[1] \notin HighBytes
    THEN Bind(Decode(Tail(bs)), LAMBDA r :  [err |-> r.err, text |-> <<bs[1]>> \o r.text])
    ELSE IF Len(bs) >= 2 /\ \E c \in DOMAIN Utf8Table : Utf8Table[c] = <<bs[1], bs[2]>>
    THEN Bind(Decode(SubSeq(bs, 3, Len(bs))), LAMBDA r :
         Bind(CHOOSE x \in DOMAIN Utf8Table : Utf8Table[x] = <<bs[1], bs[2]>>, LAMBDA c :
             [err |-> r.err, text |-> <<c>> \o r.text]))
    ELSE [err |-> "UnicodeDecodeError", text |-> <<>>]

\* a read_tokens generator that has not been advanced yet
NewTokens ==
    [live |-> FALSE, done |-> FALSE, cur |-> <<>>, pend |-> "",
     lo |-> 1, hi |-> 0, teo |-> 0]

\* what next() on a generator gives: the token (stop: the generator is
\* exhausted), the cursor of the buffer and the generator after it
T(tok, pos, g, e) == [tok |-> tok, pos |-> pos, g |-> g, stop |-> FALSE, err |-> e]

\* read_tokens of pdf.py and of utils.py from the bytes left in the current
\* block (g.lo..g.hi), reading a block of block_size bytes at the cursor when
\* they run out; passes counts the blocks read since the last token.  A block
\* that gives no token leaves the cursor where it was, so the block is read
\* again: after two such passes every further one is the same.  bound:
\* token_end_offset is set before the loop, which utils.py does
RECURSIVE ScanBlocks(_, _, _, _, _, _)
ScanBlocks(b, pos, g, passes, block_size, bound) ==
    IF ~g.live \/ g.lo > g.hi
    THEN Bind(Min(block_size, Len(b) - pos), LAMBDA n :
             IF n <= 0
             THEN (IF ~g.live /\ ~bound THEN T(<<>>, pos, g, "UnboundLocalError")
                   ELSE T(g.cur, pos + g.teo, [g EXCEPT !.done = TRUE], ""))
             ELSE IF passes = 2 THEN T(<<>>, pos, g, "Hang")
             ELSE ScanBlocks(b, pos, [g EXCEPT !.live = TRUE, !.lo = pos + 1,
                                               !.hi = pos + n, !.teo = 0],
                             passes + 1, block_size, bound))
    ELSE Bind(IF g.cur = <<>> THEN FirstNotIn(b, g.lo, g.hi, WhitespaceChars) ELSE g.lo, LAMBDA i :
         Bind(FirstIn(b, i, g.hi, WhitespaceChars \cup Delimiters), LAMBDA j :
         Bind(g.cur \o SubSeq(b, i, j - 1), LAMBDA cur :
         Bind(g.teo + (j - g.lo), LAMBDA teo :
             IF j > g.hi
             THEN ScanBlocks(b, pos, [g EXCEPT !.cur = cur, !.teo = teo, !.lo = j],
                             passes, block_size, bound)
             ELSE IF b[j] \in Delimiters /\ cur # <<>>
             THEN T(cur, pos + teo, [g EXCEPT !.pend = b[j], !.lo = j + 1], "")
             ELSE IF b[j] \in Delimiters
             THEN T(<<b[j]>>, pos + teo + 1,
                    [g EXCEPT !.cur = <<>>, !.teo = 0, !.lo = j + 1], "")
             ELSE T(cur, pos + teo, [g EXCEPT !.cur = <<>>, !.teo = 1, !.lo = j + 1], "")))))

\* next(tokens, None) on a read_tokens generator of pdf.py or of utils.py
\* with the cursor at pos
TokNextBlocks(b, pos, g, block_size, bound) ==
    IF g.done THEN [T(<<>>, pos, g, "") EXCEPT !.stop = TRUE]
    ELSE IF g.pend # ""
    THEN T(<<g.pend>>, pos + 1, [g EXCEPT !.pend = "", !.cur = <<>>, !.teo = 0], "")
    ELSE ScanBlocks(b, pos, g, 0, block_size, bound)

\* read_tokens of pdf.py with the block size it has by default
Scan(b, pos, g, passes) == ScanBlocks(b, pos, g, passes, TokenBlockSize, FALSE)

\* next(tokens, None) with the cursor at pos
TokNext(b, pos, g) == TokNextBlocks(b, pos, g, TokenBlockSize, FALSE)

\* next(read_pdf_tokens(io_buffer), None)
FirstToken(b, pos) == TokNext(b, pos, NewTokens)

\* next() on a read_lines generator with the cursor at pos; done: the
\* generator has given its last line.  The block is the rest of the buffer,
\* which is never longer than LineBlockSize; lines end at "\n"
LineNext(b, pos, done) ==
    Bind(FirstIn(b, pos + 1, Len(b), {"\n"}), LAMBDA e :
    Bind(SubSeq(b, pos + 1, Min(e, Len(b))), LAMBDA line :
        IF done THEN [line |-> <<>>, pos |-> pos, done |-> TRUE, stop |-> TRUE]
        ELSE IF pos >= Len(b)
        THEN [line |-> <<>>, pos |-> pos, done |-> TRUE, stop |-> FALSE]
        ELSE IF e >= Len(b)
        THEN [line |-> Strip(line), pos |-> Len(b) + Len(line), done |-> TRUE, stop |-> FALSE]
        ELSE [line |-> Strip(line), pos |-> e, done |-> FALSE, stop |-> FALSE]))

\* next(read_lines(io_buffer), None)
FirstLine(b, pos) == LineNext(b, pos, FALSE)

\* where reverse_read_lines leaves the cursor once the caller has seen a
\* line equal to kw and asked for one more: the start of the last such line,
\* as an offset; -1 if no line equals kw
LastLineEqual(b, kw) ==
    Bind({s \in 1..Len(b) :
             /\ (s = 1 \/ b[s - 1] = "\n")
             /\ Strip(SubSeq(b, s, Min(FirstIn(b, s, Len(b), {"\n"}), Len(b)))) = kw}, LAMBDA starts :
        IF starts = {} THEN -1
        ELSE (CHOOSE s \in starts : \A x \in starts : x <= s) - 1)

-----------------------------------------------------------------------------
(* The reader: objects *)

\* result of a parse step: exception raised, cursor after it, value parsed
PR(e, pos, val) == [err |-> e, pos |-> pos, val |-> val]

\* parse_stream_object returning None at endstream
EndOfStream == [t |-> "end"]

\* PdfDict.parse before it has read a key
NoKey == [t |-> "nokey"]

HexDigits ==
    {"0", "1", "2", "3", "4", "5", "6", "7", "8", "9",
     "a", "b", "c", "d", "e", "f", "A", "B", "C", "D", "E", "F"}

\* the key a parsed object is filed under in a PdfDict: names and strings
\* are str and hash by their text, every other object by its identity
KeyText(v, pos) ==
    IF v.t \in {"name", "str", "hex"} THEN v.v ELSE <<"#">> \o Str(pos)

\* the index of the ")" that closes the literal string whose bytes start at
\* i, 0 if the buffer ends first (io_buffer.read(1) then returns b'' for ever)
RECURSIVE LiteralEnd(_, _, _)
LiteralEnd(b, i, level) ==
    Bind(FirstIn(b, i, Len(b), {"(", ")"}), LAMBDA j :
        IF j > Len(b) THEN 0
        ELSE IF b[j] = "(" THEN LiteralEnd(b, j + 1, level + 1)
        ELSE IF level = 0 THEN j
        ELSE LiteralEnd(b, j + 1, level - 1))

\* parse_pdf_object, the hex string branch, one pass of its loop: hex holds
\* the tokens read so far
HexLoop(b, pos, g, hex) ==
    Bind(TokNext(b, pos, g), LAMBDA t :
    Bind(IF Len(hex) % 2 # 0 THEN hex \o <<"0">> ELSE hex, LAMBDA full :
        IF t.err # "" THEN PR(t.err, pos, VNone)
        ELSE IF t.stop THEN PR("TypeError", pos, VNone)
        ELSE IF t.tok # <<">">> THEN Again(<<t.pos, t.g, hex \o t.tok>>)
        ELSE IF full = <<>> \/ \E i \in 1..Len(full) : full[i] \notin HexDigits
        THEN PR("PdfParseError", t.pos, VNone)
        ELSE PR("", t.pos, VHex(full))))

RECURSIVE ParseObject(_, _)
RECURSIVE ParseDict(_, _)
RECURSIVE DictLoop(_, _, _, _)
RECURSIVE ArrayLoop(_, _, _)
RECURSIVE ParseStream(_, _, _, _)
RECURSIVE ParseStreamObject(_, _, _)
RECURSIVE ParseStreamArgs(_, _, _)
RECURSIVE ParseTextObject(_, _)
RECURSIVE TextLoop(_, _, _, _, _)

\* parse_pdf_object, the number branch: first is the token read, t1 the
\* generator state after it
ParseNumber(b, t1) ==
    Bind(t1.tok, LAMBDA first :
    Bind(TokNext(b, t1.pos, t1.g), LAMBDA t2 :
    Bind(TokNext(b, t2.pos, t2.g), LAMBDA t3 :
        IF ~IsInt(first)
        THEN (IF IsFloat(first) THEN PR("", t1.pos, VNum(FloatText(first)))
              ELSE PR("PdfParseError", t1.pos, VNone))
        ELSE IF t2.err # "" THEN PR(t2.err, t1.pos, VNone)
        ELSE IF t2.stop THEN PR("TypeError", t1.pos, VNone)
        ELSE IF ~IsInt(t2.tok) THEN PR("", t1.pos, VInt(IntValue(first)))
        ELSE IF t3.err # "" THEN PR(t3.err, t2.pos, VNone)
        ELSE IF ~t3.stop /\ t3.tok = <<"R">>
        THEN PR("", t3.pos, VRef(IntValue(first), IntValue(t2.tok)))
        ELSE PR("", t1.pos, VInt(IntValue(first))))))

\* parse_pdf_object with the cursor at pos
ParseObject(b, pos) ==
    Bind(FirstToken(b, pos), LAMBDA t1 :
    Bind(t1.tok, LAMBDA first :
    Bind(TokNext(b, t1.pos, t1.g), LAMBDA t2 :
        IF t1.err # "" THEN PR(t1.err, pos, VNone)
        ELSE IF first = <<"<">>
        THEN (IF t2.err # "" THEN PR(t2.err, t1.pos, VNone)
              ELSE IF t2.stop THEN PR("TypeError", t1.pos, VNone)
              ELSE IF t2.tok = <<"<">>
              THEN Bind(ParseDict(b, pos), LAMBDA dct :
                   Bind(FirstToken(b, dct.pos), LAMBDA ts :
                       IF dct.err # "" THEN dct
                       ELSE IF ts.err # "" THEN PR(ts.err, dct.pos, VNone)
                       ELSE IF ts.tok = K_stream
                       THEN Loop(LAMBDA s : ParseStream(b, s[1], dct.val, s[2]),
                                 Again(<<ts.pos, <<>>>>))
                       ELSE dct))
              ELSE Loop(LAMBDA s : HexLoop(b, s[1], s[2], s[3]), Again(<<t2.pos, t2.g, t2.tok>>)))
        ELSE IF first = <<"]">> \/ first = <<"}">> THEN PR("", t1.pos, VRaw(first))
        ELSE IF first = <<"[">>
        THEN Loop(LAMBDA s : ArrayLoop(b, s[1], s[2]), Again(<<t1.pos, <<>>>>))
        ELSE IF first = <<"{">> THEN PR("PdfParseError", t1.pos, VNone)
        ELSE IF first = <<"(">>
        THEN Bind(LiteralEnd(b, t1.pos + 1, 0), LAMBDA e :
             Bind(Decode(SubSeq(b, t1.pos + 1, e - 1)), LAMBDA text :
                 IF e = 0 THEN PR("Hang", t1.pos, VNone)
                 ELSE IF text.err # "" THEN PR(text.err, e, VNone)
                 ELSE PR("", e, VStr(text.text))))
        ELSE IF first = <<"t", "r", "u", "e">> THEN PR("", t1.pos, VBool(TRUE))
        ELSE IF first = <<"f", "a", "l", "s", "e">> THEN PR("", t1.pos, VBool(FALSE))
        ELSE IF first = <<"n", "u", "l", "l">> THEN PR("", t1.pos, VNull)
        ELSE IF first = <<"%">>
        THEN Bind(FirstLine(b, t1.pos), LAMBDA l :
             Bind(Decode(l.line), LAMBDA text :
                 IF text.err # "" THEN PR(text.err, l.pos, VNone)
                 ELSE PR("", l.pos, VComment(text.text))))
        ELSE IF first = <<"/">>
        THEN Bind(Decode(t2.tok), LAMBDA name :
                 IF t2.err # "" THEN PR(t2.err, t1.pos, VNone)
                 ELSE IF t2.stop THEN PR("TypeError", t1.pos, VNone)
                 ELSE IF t1.pos # t2.pos - Len(t2.tok) THEN PR("PdfParseError", t2.pos, VNone)
                 ELSE IF name.err # "" THEN PR(name.err, t2.pos, VNone)
                 ELSE PR("", t2.pos, VName(name.text)))
        ELSE ParseNumber(b, t1))))

\* parse_pdf_object, the array branch, one pass of its loop: items holds the
\* items read so far
ArrayLoop(b, pos, items) ==
    Bind(ParseObject(b, pos), LAMBDA o :
        IF o.err # "" THEN o
        ELSE IF o.val.t = "comment" THEN Again(<<o.pos, items>>)
        ELSE IF o.val.t = "raw" /\ o.val.v = <<"]">> THEN PR("", o.pos, VArr(items))
        ELSE Again(<<o.pos, Append(items, o.val)>>))

\* PdfDict.parse
ParseDict(b, pos) ==
    Bind(FirstToken(b, pos), LAMBDA t1 :
    Bind(TokNext(b, t1.pos, t1.g), LAMBDA t2 :
        IF t1.err # "" THEN PR(t1.err, pos, VNone)
        ELSE IF t2.err # "" THEN PR(t2.err, t1.pos, VNone)
        ELSE IF t1.tok # <<"<">> \/ t2.stop \/ t2.tok # <<"<">>
        THEN PR("PdfParseError", t2.pos, VNone)
        ELSE Loop(LAMBDA s : DictLoop(b, s[1], s[2], s[3]), Again(<<t2.pos, NoKey, <<>>>>))))

\* PdfDict.parse, one pass of its loop: key is current_key, items the entries
\* set so far
DictLoop(b, pos, key, items) ==
    Bind(FirstToken(b, pos), LAMBDA ta :
    Bind(TokNext(b, ta.pos, ta.g), LAMBDA tb :
    Bind(ParseObject(b, pos), LAMBDA o :
        IF ta.err # "" THEN PR(ta.err, pos, VNone)
        ELSE IF ta.tok = <<">">>
        THEN (IF tb.err # "" THEN PR(tb.err, ta.pos, VNone)
              ELSE IF tb.stop \/ tb.tok # <<">">> THEN PR("PdfParseError", tb.pos, VNone)
              ELSE PR("", tb.pos, VDict(items)))
        ELSE IF o.err # "" THEN o
        ELSE IF o.val.t = "comment" THEN Again(<<o.pos, key, items>>)
        ELSE IF key = NoKey THEN Again(<<o.pos, [t |-> "key", val |-> o.val, at |-> pos], items>>)
        ELSE IF key.val.t \in {"dict", "arr"} THEN PR("TypeError", o.pos, VNone)
        ELSE Again(<<o.pos, NoKey, DictSet(items, KeyText(key.val, key.at), o.val)>>))))

\* PdfStream.parse, one pass of its loop: ops holds the operators read so far
ParseStream(b, pos, dict, ops) ==
    Bind(ParseStreamObject(b, pos, <<>>), LAMBDA so :
        IF so.err # "" THEN so
        ELSE IF so.val = EndOfStream THEN PR("", so.pos, VStream(dict, ops))
        ELSE Again(<<so.pos, Append(ops, so.val)>>))

\* parse_stream_object: it calls itself with one more operand in _op_args
\* until it meets an operator
ParseStreamObject(b, pos, args) ==
    Loop(LAMBDA s : ParseStreamArgs(b, s[1], s[2]), Again(<<pos, args>>))

\* parse_stream_object, one call of it with _op_args = args
ParseStreamArgs(b, pos, args) ==
    Bind(FirstToken(b, pos), LAMBDA t :
    Bind(ParseObject(b, pos), LAMBDA o :
        IF t.err # "" THEN PR(t.err, pos, VNone)
        ELSE IF t.tok = K_endstream
        THEN (IF Len(args) > 0 THEN PR("PdfParseError", t.pos, VNone)
              ELSE PR("", t.pos, EndOfStream))
        ELSE IF t.tok = <<"q">> THEN PR("", t.pos, Op("q", <<>>, <<>>))
        ELSE IF t.tok = <<"Q">> THEN PR("", t.pos, Op("Q", <<>>, <<>>))
        ELSE IF t.tok = <<"c", "m">>
        THEN (IF Len(args) # 6 THEN PR("PdfParseError", t.pos, VNone)
              ELSE PR("", t.pos, Op("cm", args, <<>>)))
        ELSE IF t.tok = <<"B", "T">> THEN ParseTextObject(b, pos)
        ELSE IF o.err # "" THEN o
        ELSE Again(<<o.pos, Append(args, o.val)>>)))

\* StreamTextObject.parse
ParseTextObject(b, pos) ==
    Bind(FirstToken(b, pos), LAMBDA t :
        IF t.err # "" THEN PR(t.err, pos, VNone)
        ELSE Loop(LAMBDA s : TextLoop(b, s[1], s[2], s[3], s[4]),
                  Again(<<t.pos, t.g, <<>>, <<>>>>)))

\* the operand counts StreamTextObject.parse insists on
TextOperands == [Tj |-> 1, TL |-> 1, Tf |-> 2, Tm |-> 6]

\* StreamTextObject.parse, one pass of its loop: g is the generator in use,
\* args the operands read since the last operator, ops the operators read so
\* far
TextLoop(b, pos, g, args, ops) ==
    Bind(TokNext(b, pos, g), LAMBDA t :
    Bind(IF t.tok = <<"T", "j">> THEN "Tj"
         ELSE IF t.tok = <<"T", "L">> THEN "TL"
         ELSE IF t.tok = <<"T", "f">> THEN "Tf"
         ELSE IF t.tok = <<"T", "m">> THEN "Tm"
         ELSE "", LAMBDA m :
    Bind(ParseObject(b, pos), LAMBDA o :
        IF t.err # "" THEN PR(t.err, pos, VNone)
        ELSE IF t.stop THEN PR("PdfParseError", pos, VNone)
        ELSE IF t.tok = <<"E", "T">>
        THEN (IF Len(args) # 0 THEN PR("PdfParseError", t.pos, VNone)
              ELSE PR("", t.pos, Op("BT", <<>>, ops)))
        ELSE IF m # ""
        THEN (IF Len(args) # TextOperands[m] THEN PR("PdfParseError", t.pos, VNone)
              ELSE Again(<<t.pos, t.g, <<>>, Append(ops, Op(m, args, <<>>))>>))
        ELSE IF t.tok = <<"T", "*">>
        THEN (IF Len(args) # 0 THEN PR("PdfParseError", t.pos, VNone)
              ELSE Again(<<t.pos, t.g, args, Append(ops, Op("T*", <<>>, <<>>))>>))
        ELSE IF o.err # "" THEN o
        ELSE Again(<<o.pos, NewTokens, Append(args, o.val), ops>>))))

-----------------------------------------------------------------------------
(* The reader: file structure *)

\* PdfIndirectObject.parse with the cursor at pos
ParseIndirectObject(b, pos) ==
    Bind(FirstLine(b, pos), LAMBDA l :
    Bind(Split(l.line), LAMBDA parts :
    Bind(ParseObject(b, l.pos), LAMBDA c :
    Bind(FirstToken(b, c.pos), LAMBDA t :
        IF Len(parts) # 3 \/ parts[3] # K_obj THEN PR("PdfParseError", l.pos, VNone)
        ELSE IF c.err # "" THEN c
        ELSE IF t.err # "" THEN PR(t.err, c.pos, VNone)
        ELSE IF t.tok # K_endobj THEN PR("PdfParseError", t.pos, VNone)
        ELSE PR("", t.pos, c.val)))))

\* CrtEntry.parse with the cursor at pos, for object number n
ParseEntry(b, pos, n) ==
    Bind(FirstLine(b, pos), LAMBDA l :
    Bind(Split(l.line), LAMBDA parts :
        IF Len(parts) # 3 \/ ~IsInt(parts[1]) \/ ~IsInt(parts[2])
        THEN PR("ValueError", l.pos, VNone)
        ELSE PR("", l.pos,
                [pdf_object |-> 0, object_number |-> n,
                 generation_number |-> IntValue(parts[2]),
                 first_item |-> IntValue(parts[1]),
                 free |-> IF parts[3] = <<"f">> THEN "True" ELSE "False"])))

\* CrtSubsection.parse, pass i of the loop over range(int(num_objects)):
\* entries holds the entries read so far
ParseEntries(b, pos, first, i, count, entries) ==
    Bind(ParseEntry(b, pos, first + i), LAMBDA e :
        IF i >= count THEN PR("", pos, entries)
        ELSE IF e.err # "" THEN e
        ELSE Again(<<e.pos, i + 1, Append(entries, e.val)>>))

\* CrtSubsection.parse
ParseSubsection(b, pos) ==
    Bind(FirstLine(b, pos), LAMBDA l :
    Bind(Split(l.line), LAMBDA parts :
        IF Len(parts) # 2 \/ ~IsInt(parts[1]) \/ ~IsInt(parts[2])
        THEN PR("ValueError", l.pos, VNone)
        ELSE Loop(LAMBDA s : ParseEntries(b, s[1], IntValue(parts[1]), s[2],
                                          IntValue(parts[2]), s[3]),
                  Again(<<l.pos, 0, <<>>>>))))

\* CrtSection.parse, one pass of the loop over subsections up to the trailer
\* keyword: subs holds the subsections read so far
ParseSubsections(b, pos, subs) ==
    Bind(FirstToken(b, pos), LAMBDA t :
    Bind(ParseSubsection(b, pos), LAMBDA sub :
        IF t.err # "" THEN PR(t.err, pos, <<>>)
        ELSE IF t.tok = K_trailer THEN PR("", pos, subs)
        ELSE IF sub.err # "" THEN sub
        ELSE Again(<<sub.pos, Append(subs, sub.val)>>)))

\* CrtSection.parse
ParseCrtSection(b, pos) ==
    Bind(FirstLine(b, pos), LAMBDA l :
        IF l.line # K_xref THEN PR("PdfParseError", l.pos, <<>>)
        ELSE Loop(LAMBDA s : ParseSubsections(b, s[1], s[2]), Again(<<l.pos, <<>>>>)))

\* FileTrailer.parse: trailer_dict and crt_byte_offset
ParseTrailer(b, pos) ==
    Bind(FirstToken(b, pos), LAMBDA t1 :
    Bind(ParseDict(b, t1.pos), LAMBDA dct :
    Bind(FirstToken(b, dct.pos), LAMBDA t2 :
    Bind(FirstLine(b, t2.pos), LAMBDA l1 :
    Bind(LineNext(b, l1.pos, l1.done), LAMBDA l2 :
    Bind(LineNext(b, l2.pos, l2.done), LAMBDA l3 :
    Bind([trailer_dict |-> VNone, crt_byte_offset |-> NoneVal], LAMBDA none :
        IF t1.err # "" THEN PR(t1.err, pos, none)
        ELSE IF t1.tok # K_trailer THEN PR("PdfParseError", t1.pos, none)
        ELSE IF dct.err # "" THEN PR(dct.err, dct.pos, none)
        ELSE IF ~DictHas(dct.val.v, S_Size) THEN PR("KeyError", dct.pos, none)
        ELSE IF t2.err # "" THEN PR(t2.err, dct.pos, none)
        ELSE IF t2.tok # K_startxref THEN PR("PdfParseError", t2.pos, none)
        ELSE IF l2.stop THEN PR("TypeError", l2.pos, none)
        ELSE IF ~IsInt(l2.line) THEN PR("PdfParseError", l2.pos, none)
        ELSE IF l3.stop \/ l3.line # K_eof THEN PR("PdfParseError", l3.pos, none)
        ELSE PR("", l3.pos,
                [trailer_dict |-> dct.val, crt_byte_offset |-> IntValue(l2.line)]))))))))

\* an indirect object PdfIndirectObject.parse has filled: it is never attached
ParsedObject(c) == [NewIndirectObject EXCEPT !.contents = c]

\* FileBody.parse, one pass of its loops, for entry j of subsection i: d
\* carries the heap and the object store, sec the body and the xref table
ParseBody(b, d, sec, i, j) ==
    Bind(sec.subsections[i][j], LAMBDA e :
    Bind(<<e.object_number, e.generation_number>>, LAMBDA key :
    Bind(MakeFreeObject(d.heap, sec, key[1], key[2]), LAMBDA m :
    Bind(ParseIndirectObject(b, e.first_item), LAMBDA o :
    Bind(Len(d.heap) + 1, LAMBDA id :
    Bind([d EXCEPT !.heap = m.heap], LAMBDA dFree :
    Bind([m.sec EXCEPT !.subsections[i][j].pdf_object = m.id], LAMBDA sFree :
    Bind([d EXCEPT !.heap = Append(@, ParsedObject(o.val)),
                   !.object_store = IF key \in DOMAIN @ THEN @ ELSE Put(@, key, id)], LAMBDA dUsed :
    Bind([sec EXCEPT !.subsections[i][j].pdf_object = id,
                     !.objects = Put(@, key, id)], LAMBDA sUsed :
        IF i > Len(sec.subsections) THEN [err |-> "", d |-> d, sec |-> sec]
        ELSE IF j > Len(sec.subsections[i]) THEN Again(<<d, sec, i + 1, 1>>)
        ELSE IF e.free = "True"
        THEN (IF m.err # "" THEN [err |-> m.err, d |-> d, sec |-> sec]
              ELSE Again(<<dFree, sFree, i, j + 1>>))
        ELSE IF e.first_item < 0 THEN [err |-> "ValueError", d |-> d, sec |-> sec]
        ELSE IF o.err # "" THEN [err |-> o.err, d |-> d, sec |-> sec]
        ELSE Again(<<dUsed, sUsed, i, j + 1>>))))))))))

\* FileSection.parse for the first section read: the last one of the file
ParseSection(b, d) ==
    Bind(LastLineEqual(b, K_trailer), LAMBDA start :
    Bind(ParseTrailer(b, start), LAMBDA t :
    Bind(DictGet(t.val.trailer_dict.v, S_Size), LAMBDA size :
    Bind(ParseCrtSection(b, t.val.crt_byte_offset), LAMBDA x :
    Bind([NewSection EXCEPT !.inited = TRUE,
                            !.trailer_dict = t.val.trailer_dict,
                            !.crt_byte_offset = t.val.crt_byte_offset,
                            !.size = IF size.t = "int" THEN size.v ELSE NoneVal,
                            !.subsections = x.val], LAMBDA sec :
    Bind(Loop(LAMBDA s : ParseBody(b, s[1], s[2], s[3], s[4]), Again(<<d, sec, 1, 1>>)), LAMBDA body :
        IF start < 0 THEN [err |-> "PdfParseError", d |-> d, sec |-> NewSection]
        ELSE IF t.err # "" THEN [err |-> t.err, d |-> d, sec |-> NewSection]
        ELSE IF t.val.crt_byte_offset < 0 THEN [err |-> "ValueError", d |-> d, sec |-> NewSection]
        ELSE IF x.err # "" THEN [err |-> x.err, d |-> d, sec |-> NewSection]
        ELSE body))))))

\* FileHeader.parse
ParseHeader(b, d) ==
    Bind(FirstLine(b, 0), LAMBDA l :
    Bind(SubSeq(l.line, Len(K_pdf) + 2, Len(l.line)), LAMBDA v :
        IF Len(l.line) < Len(K_pdf) \/ SubSeq(l.line, 1, Len(K_pdf)) # K_pdf
        THEN R(d, "PdfParseError", 0)
        ELSE IF ~IsFloat(v) THEN R(d, "ValueError", 0)
        ELSE R([d EXCEPT !.version = FloatText(v)], "", 0)))

-----------------------------------------------------------------------------
(* The reader: document hierarchy *)

\* a parsed value is a str with this text (PdfName and the string types are)
IsText(v, text) == v.t \in {"name", "str", "hex"} /\ v.v = text

\* ContentStream.from_object for one element of a page's /Contents
ContentFromRef(d, ref) ==
    Bind(<<ref.n, ref.g>>, LAMBDA key :
    Bind(d.object_store[key], LAMBDA id :
        IF ref.t # "ref" THEN [err |-> "AttributeError", val |-> 0]
        ELSE IF key \notin DOMAIN d.object_store THEN [err |-> "PdfParseError", val |-> 0]
        ELSE IF d.heap[id].contents.t # "stream" THEN [err |-> "AttributeError", val |-> 0]
        ELSE [err |-> "", val |-> [pdf_object |-> id, contents |-> d.heap[id].contents.ops]]))

\* PageObject.from_object on heap object id, as a child of the tree of d.
\* The values the page keeps a reference to (/Resources, /Contents) move
\* into cells, so that the page and its dictionary share them
PageFromObject(d, id) ==
    Bind(d.heap[id].contents.v, LAMBDA c :
    Bind(DictHas(c, S_Resources), LAMBDA hasRes :
    Bind(DictHas(c, S_Contents), LAMBDA hasCon :
    Bind(Len(d.cells) + 1, LAMBDA resCell :
    Bind(Len(d.cells) + (IF hasRes THEN 2 ELSE 1), LAMBDA conCell :
    Bind(IF hasRes THEN resCell ELSE d.tree.resources, LAMBDA res :
    Bind(IF DictHas(c, S_MediaBox) THEN DictGet(c, S_MediaBox) ELSE d.tree.media_box, LAMBDA box :
    Bind(IF hasCon THEN DictGet(c, S_Contents) ELSE VArr(<<>>), LAMBDA conVal :
    Bind(IF hasRes THEN DictSet(c, S_Resources, VCell(resCell)) ELSE c, LAMBDA c1 :
    Bind(IF hasCon THEN DictSet(c1, S_Contents, VCell(conCell)) ELSE c1, LAMBDA c2 :
    Bind([d EXCEPT !.cells = @ \o (IF hasRes THEN <<DictGet(c, S_Resources)>> ELSE <<>>)
                               \o <<conVal>>,
                   !.heap[id].contents.v = c2], LAMBDA d1 :
    Bind([i \in 1..Len(conVal.v) |-> ContentFromRef(d, conVal.v[i])], LAMBDA objs :
    Bind(d1.cells[res], LAMBDA resVal :
    Bind(IF DictHas(resVal.v, S_Font) THEN DictGet(resVal.v, S_Font) ELSE VDict(<<>>), LAMBDA fonts :
    Bind({IntValue(Tail(fonts.v[i][1])) : i \in 1..Len(fonts.v)}, LAMBDA numbers :
    Bind([pdf_object |-> id, resources |-> res, media_box |-> box,
          contents |-> conCell,
          objects |-> [i \in 1..Len(objs) |-> objs[i].val],
          font_number |-> IF numbers = {} THEN 0
                          ELSE CHOOSE n \in numbers : \A m \in numbers : m <= n], LAMBDA page :
        IF res = 0 \/ box.t = "none" THEN R(d, "PdfBuildError", 0)
        ELSE IF conVal.t # "arr" THEN R(d, "TypeError", 0)
        ELSE IF FirstError(objs) # "" THEN R(d, FirstError(objs), 0)
        ELSE IF resVal.t # "dict" THEN R(d, "AttributeError", 0)
        ELSE IF fonts.t # "dict" THEN R(d, "TypeError", 0)
        ELSE IF \E i \in 1..Len(fonts.v) :
                    fonts.v[i][1] = <<>> \/ ~IsInt(Tail(fonts.v[i][1]))
        THEN R(d, "ValueError", 0)
        ELSE R([d1 EXCEPT !.pages = Append(@, page)], "", Len(d.pages) + 1)))))))))))))))))

\* PageTreeNode.from_object, the loop over /Kids from the i-th on.  The
\* writer never nests page-tree nodes; the model ends at one it meets
KidsFromObject(d, kids, i) ==
    Bind(kids[i], LAMBDA ref :
    Bind(<<ref.n, ref.g>>, LAMBDA key :
    Bind(d.object_store[key], LAMBDA id :
    Bind(d.heap[id].contents, LAMBDA c :
    Bind(DictGet(c.v, S_Type), LAMBDA type :
    Bind(PageFromObject(d, id), LAMBDA p :
    Bind([p.d EXCEPT !.tree.children = Append(@, p.ret),
                     !.cells[d.tree.count].v = @ + 1], LAMBDA d1 :
        IF i > Len(kids) THEN R(d, "", 0)
        ELSE IF ref.t # "ref" THEN R(d, "AttributeError", 0)
        ELSE IF key \notin DOMAIN d.object_store THEN R(d, "PdfParseError", 0)
        ELSE IF c.t # "dict" THEN R(d, "TypeError", 0)
        ELSE IF ~DictHas(c.v, S_Type) THEN R(d, "KeyError", 0)
        ELSE IF IsText(type, S_Pages) THEN R(d, "NestedPageTree", 0)
        ELSE IF ~IsText(type, S_Page) THEN R(d, "PdfParseError", 0)
        ELSE IF p.err # "" THEN R(d, p.err, 0)
        ELSE Again(<<d1, i + 1>>))))))))

\* PageTreeNode.__init__ and PageTreeNode.from_object on heap object id:
\* kids is the array of the dictionary, count a new integer
TreeFromObject(d, id) ==
    Bind(d.heap[id].contents, LAMBDA c :
    Bind(DictHas(c.v, S_Resources), LAMBDA hasRes :
    Bind(DictGet(c.v, S_Kids), LAMBDA kidsVal :
    Bind(Len(d.cells) + 1, LAMBDA kidsCell :
    Bind(Len(d.cells) + 2, LAMBDA countCell :
    Bind(Len(d.cells) + 3, LAMBDA resCell :
    Bind(DictSet(c.v, S_Kids, VCell(kidsCell)), LAMBDA c1 :
    Bind(IF hasRes THEN DictSet(c1, S_Resources, VCell(resCell)) ELSE c1, LAMBDA c2 :
    Bind([d EXCEPT !.cells = @ \o <<kidsVal, VInt(0)>>
                               \o (IF hasRes THEN <<DictGet(c.v, S_Resources)>> ELSE <<>>),
                   !.heap[id].contents.v = c2,
                   !.tree = [pdf_object |-> id, children |-> <<>>, kids |-> kidsCell,
                             count |-> countCell,
                             resources |-> IF hasRes THEN resCell ELSE 0,
                             media_box |-> VNone]], LAMBDA d1 :
        IF c.t # "dict" THEN R(d, "AttributeError", 0)
        ELSE IF ~DictHas(c.v, S_Kids) THEN R(d, "KeyError", 0)
        ELSE IF kidsVal.t # "arr" THEN R(d, "TypeError", 0)
        ELSE Loop(LAMBDA s : KidsFromObject(s[1], kidsVal.v, s[2]), Again(<<d1, 1>>)))))))))))

\* DocumentCatalog.from_object on heap object id
CatalogFromObject(d, id) ==
    Bind(d.heap[id].contents, LAMBDA c :
    Bind(DictGet(c.v, S_Pages), LAMBDA ref :
    Bind(<<ref.n, ref.g>>, LAMBDA key :
    Bind(TreeFromObject(d, d.object_store[key]), LAMBDA t :
        IF c.t # "dict" THEN R(d, "TypeError", 0)
        ELSE IF ~DictHas(c.v, S_Pages) THEN R(d, "KeyError", 0)
        ELSE IF ref.t # "ref" THEN R(d, "AttributeError", 0)
        ELSE IF key \notin DOMAIN d.object_store THEN R(d, "PdfParseError", 0)
        ELSE IF t.err # "" THEN R(d, t.err, 0)
        ELSE R([t.d EXCEPT !.catalog = id], "", id)))))

\* PdfFile.parse
PdfParse(d, b) ==
    Bind(ParseHeader(b, [d EXCEPT !.header = TRUE]), LAMBDA h :
    Bind(ParseSection(b, h.d), LAMBDA s :
    Bind([s.d EXCEPT !.sections = <<s.sec>>], LAMBDA d1 :
    Bind(s.sec.trailer_dict.v, LAMBDA td :
    Bind(DictGet(td, S_Root), LAMBDA root :
    Bind(<<root.n, root.g>>, LAMBDA key :
        IF h.err # "" THEN h
        ELSE IF s.err # "" THEN R(s.d, s.err, 0)
        ELSE IF DictHas(td, S_Prev) THEN R(d1, "TypeError", 0)
        ELSE IF ~DictHas(td, S_Root) THEN R(d1, "KeyError", 0)
        ELSE IF root.t # "ref" THEN R(d1, "AttributeError", 0)
        ELSE IF key \notin DOMAIN d1.object_store THEN R(d1, "PdfParseError", 0)
        ELSE Bind(CatalogFromObject(d1, d1.object_store[key]), LAMBDA c :
                 IF c.err # "" THEN R(d1, c.err, 0) ELSE c)))))))

\* PdfFile.read on a seekable io.BytesIO holding b
PdfRead(d, b) ==
    IF d.catalog # 0 THEN R(d, "PdfBuildError", 0)
    ELSE PdfParse(d, b)

-----------------------------------------------------------------------------
(* Inputs the model draws from *)

Versions == {DefaultVersion}

\* text operands of add_text: plain ASCII, and one with a non-ASCII character
Texts == {<<"a">>, <<"e_acute">>}

FontNames == {NoneName, S_Courier}
LineSize == 42
TextSize == 40
TranslateX == 150
TranslateY == 200

\* a call: its name, the page it was made on, the font name it was given,
\* the object or page it returned, the alias it returned
Call(op, page, name, ret, alias) ==
    [op |-> op, page |-> page, name |-> name, ret |-> ret, alias |-> alias]

Pages == 1..Len(pdf.pages)

\* the written document d with one more section, set up as the first one is
\* and holding a changed copy of object 1, the page tree: its trailer names
\* the same /Root and /Size, and as /Prev the offset of the first section's
\* cross-reference table
UpdatedDocument(d) ==
    Bind(SectionSetup(d.heap), LAMBDA s :
    Bind(d.heap[d.sections[1].objects[<<1, 0>>]].contents, LAMBDA c :
    Bind(VDict(DictSet(c.v, S_MediaBox, d.tree.media_box)), LAMBDA changed :
    Bind(BodyAddPdfObject(s.heap, s.sec, changed), LAMBDA o :
    Bind(CrtAddPdfObject(o.sec, o.id), LAMBDA sec :
    Bind(VDict(<< <<S_Root, RefOf(d.heap[d.catalog])>>,
                  <<S_Size, VInt(d.sections[1].size)>>,
                  <<S_Prev, VInt(d.sections[1].crt_byte_offset)>> >>), LAMBDA trailer :
        [d EXCEPT !.heap = o.heap,
                  !.sections = Append(@, [sec EXCEPT !.size = d.sections[1].size,
                                                     !.trailer_dict = trailer])]))))))

\* the written document d with a trailer whose /Root names an object the
\* file does not hold
UnrootedDocument(d) ==
    [d EXCEPT !.sections[1].trailer_dict =
                  VDict(<< <<S_Root, VRef(d.sections[1].size, 0)>>,
                           <<S_Size, VInt(d.sections[1].size)>> >>)]

\* the bytes b written for document d, followed by the update section of
\* UpdatedDocument(d) as FileSection.format writes a section that starts at
\* the byte after b and its line end
UpdatedFile(d, b) ==
    Bind(UpdatedDocument(d), LAMBDA u :
        b \o <<"\n">> \o Encode(FmtSection(u, u.sections[2], Len(b) + 1).text))

\* the written document d with a trailer whose /Prev is the offset of the
\* cross-reference table of its own section
SelfPrevDocument(d) ==
    [d EXCEPT !.sections[1].trailer_dict =
                  VDict(<< <<S_Root, RefOf(d.heap[d.catalog])>>,
                           <<S_Size, VInt(d.sections[1].size)>>,
                           <<S_Prev, VInt(d.sections[1].crt_byte_offset)>> >>)]

\* the bytes b cut after the trailer keyword: nothing follows its last byte
TruncatedFile(b) == SubSeq(b, 1, LastLineEqual(b, K_trailer) + Len(K_trailer))

\* the files read: the bytes b written for document d, the file of d with an
\* update section, the file of d with a dangling /Root, the file of d with
\* a /Prev that leads back to its own section, the file of d cut short
ReadInputs(d, b) ==
    {b, UpdatedFile(d, b), PdfWrite(UnrootedDocument(d)).bytes,
     PdfWrite(SelfPrevDocument(d)).bytes, TruncatedFile(b)}

-----------------------------------------------------------------------------
(* Operations *)

Init ==
    /\ pdf \in {NewPdfFile(v) : v \in Versions}
    /\ buf = <<>>
    /\ err = ""
    /\ last = Call("new", 0, NoneName, 0, <<>>)
    /\ snap = [pdf |-> NewPdfFile(DefaultVersion), bytes |-> <<>>, phase |-> "build",
               read |-> <<>>]

Finish(r, call) ==
    /\ pdf' = r.d
    /\ err' = r.err
    /\ last' = call

\* pdf.setup() on a fresh PdfFile
Setup ==
    /\ Len(pdf.sections) = 0
    /\ pdf.catalog = 0
    /\ Bind(PdfSetup(pdf), LAMBDA r :  Finish(r, Call("setup", 0, NoneName, r.ret, <<>>)))
    /\ UNCHANGED <<buf, snap>>

\* pdf.add_page()
AddPage ==
    /\ Len(pdf.pages) < MaxPages
    /\ Len(pdf.heap) < MaxObjects
    /\ Bind(PdfAddPage(pdf), LAMBDA r :  Finish(r, Call("add_page", r.ret, NoneName, r.ret, <<>>)))
    /\ UNCHANGED <<buf, snap>>

\* pdf.add_update()
AddUpdate ==
    /\ Len(pdf.sections) < MaxSections
    /\ Bind(PdfAddUpdate(pdf), LAMBDA r :  Finish(r, Call("add_update", 0, NoneName, r.ret, <<>>)))
    /\ UNCHANGED <<buf, snap>>

\* page.add_font(font_name)
AddFont ==
    /\ Len(pdf.heap) < MaxObjects
    /\ \E p \in Pages, name \in FontNames :
         /\ pdf.pages[p].font_number < MaxAliases
         /\ Bind(PageAddFont(pdf, p, name), LAMBDA r :
                Finish(r, Call("add_font", p, name, 0, r.ret)))
    /\ UNCHANGED <<buf, snap>>

\* page.add_content_stream([]) 
AddContentStream ==
    /\ Len(pdf.heap) < MaxObjects
    /\ \E p \in Pages :
         Bind(PageAddContentStream(pdf, p, <<Op("q", <<>>, <<>>), Op("Q", <<>>, <<>>)>>), LAMBDA r :
             Finish(r, Call("add_content_stream", p, NoneName, r.ret, <<>>)))
    /\ UNCHANGED <<buf, snap>>

\* page.add_text(text, font_name, size=40, line_size=42, translate_x=150, translate_y=200)
AddText ==
    /\ Len(pdf.heap) + 1 < MaxObjects
    /\ \E p \in Pages, text \in Texts, name \in FontNames :
         /\ pdf.pages[p].font_number < MaxAliases
         /\ Bind(PageAddText(pdf, p, text, name, TextSize, LineSize, TranslateX, TranslateY), LAMBDA r :
                Finish(r, Call("add_text", p, name, r.ret, <<>>)))
    /\ UNCHANGED <<buf, snap>>

\* pdf.write(io.BytesIO())
Write ==
    /\ LET w == PdfWrite(pdf)
       IN  /\ pdf' = w.d
           /\ err' = w.err
           /\ last' = Call("write", 0, NoneName, 0, <<>>)
           /\ buf' = IF w.err = "" THEN w.bytes ELSE buf
           /\ snap' = IF w.err = "" /\ snap.phase = "build"
                      THEN [pdf |-> w.d, bytes |-> w.bytes, phase |-> "written", read |-> <<>>]
                      ELSE snap

\* pdf = PdfFile().read(io.BytesIO(input))
Read ==
    /\ snap.phase = "written"
    /\ \E input \in ReadInputs(snap.pdf, buf) :
           LET r == PdfRead(NewPdfFile(DefaultVersion), input)
           IN  /\ Finish(r, Call("read", 0, NoneName, 0, <<>>))
               /\ snap' = [snap EXCEPT !.phase = IF r.err = "" THEN "parsed" ELSE "unreadable",
                                       !.read = input]
    /\ UNCHANGED buf

\* the keys and generations make_free_object is called with
FreeNumbers == {0, 3}
FreeGenerations == {0, ZerothGeneration}

FreeCount == Cardinality({i \in 1..Len(pdf.heap) : pdf.heap[i].free})

\* pdf.sections[-1].body.make_free_object(n, g)
MakeFree ==
    /\ Len(pdf.sections) > 0
    /\ pdf.sections[Len(pdf.sections)].inited
    /\ Len(pdf.heap) < MaxObjects
    /\ FreeCount < MaxFree
    /\ \E n \in FreeNumbers, g \in FreeGenerations :
         Bind(Len(pdf.sections), LAMBDA k :
         Bind(MakeFreeObject(pdf.heap, pdf.sections[k], n, g), LAMBDA m :
             Finish(R([pdf EXCEPT !.heap = m.heap, !.sections[k] = m.sec], m.err, m.id),
                    Call("make_free_object", 0, NoneName, m.id, <<>>))))
    /\ UNCHANGED <<buf, snap>>

\* body.release_pdf_object(body.objects[key])
ReleaseObject ==
    /\ Len(pdf.sections) > 0
    /\ pdf.sections[Len(pdf.sections)].inited
    /\ FreeCount < MaxFree
    /\ \E key \in DOMAIN pdf.sections[Len(pdf.sections)].objects :
         Bind(Len(pdf.sections), LAMBDA k :
         Bind(pdf.sections[k].objects[key], LAMBDA id :
         Bind(ReleasePdfObject(pdf.heap, pdf.sections[k], id), LAMBDA r :
             Finish(R([pdf EXCEPT !.heap = r.heap, !.sections[k] = r.sec], "", id),
                    Call("release_pdf_object", 0, NoneName, id, <<>>)))))
    /\ UNCHANGED <<buf, snap>>

NextBuild == Setup \/ AddPage \/ AddUpdate \/ AddFont \/ AddContentStream \/ AddText

SpecBuild == Init /\ [][NextBuild]_vars

\* a section body and its free-object list
NextFree == Setup \/ AddPage \/ MakeFree \/ ReleaseObject

SpecFree == Init /\ [][NextFree]_vars

\* a document is built and written; the bytes are read into a new document,
\* which is extended by an update and written again
Building == snap.phase = "build"
Extending == snap.phase \in {"build", "parsed"}

Next ==
    \/ Building /\ Setup
    \/ Extending /\ AddPage
    \/ Building /\ AddText
    \/ Extending /\ AddUpdate
    \/ Extending /\ Write
    \/ Read

Spec == Init /\ [][Next]_vars

-----------------------------------------------------------------------------
(* The buffers read and write are given *)

\* what is handed to read and write: an io.BytesIO, one whose seekable()
\* is False, one whose writable() is False, and a str
BufferKinds == {"BytesIO", "unseekable", "unwritable", "str"}

\* isinstance(io_buffer, io.IOBase)
IsIOBase(kind) == kind # "str"

SeekableAlways(kind) == TRUE

\* io_buffer.seekable()
Seekable(kind) == kind \in {"BytesIO", "unwritable"}

\* io_buffer.writable()
Writable(kind) == kind \in {"BytesIO", "unseekable"}

\* PdfFile.read on a buffer of this kind that holds b
PdfReadFrom(d, kind, b) ==
    IF d.catalog # 0 THEN R(d, "PdfBuildError", 0)
    ELSE IF ~IsIOBase(kind) THEN R(d, "PdfIoError", 0)
    ELSE IF ~Seekable(kind) THEN R(d, "PdfIoError", 0)
    ELSE PdfParse(d, b)

\* PdfFile.write on a buffer of this kind
PdfWriteTo(d, kind) ==
    IF ~IsIOBase(kind) THEN [err |-> "PdfIoError", bytes |-> <<>>, d |-> d]
    ELSE IF ~Writable(kind) THEN [err |-> "PdfIoError", bytes |-> <<>>, d |-> d]
    ELSE PdfWrite(d)

\* pdf.read(buffer), the buffer holding the bytes written last
ReadBuffer ==
    /\ \E kind \in BufferKinds :
           LET r == PdfReadFrom(pdf, kind, buf)
           IN  Finish(r, Call("read", 0, <<kind>>, 0, <<>>))
    /\ UNCHANGED <<buf, snap>>

\* pdf.write(buffer), the buffer holding the bytes written last and its
\* cursor at 0: the bytes written replace the first ones
WriteBuffer ==
    /\ \E kind \in BufferKinds :
           Bind(PdfWriteTo(pdf, kind), LAMBDA w :
               /\ pdf' = w.d
               /\ err' = w.err
               /\ last' = Call("write", 0, <<kind>>, 0, <<>>)
               /\ buf' = IF w.err # "" THEN buf
                         ELSE IF Len(buf) > Len(w.bytes)
                         THEN w.bytes \o SubSeq(buf, Len(w.bytes) + 1, Len(buf))
                         ELSE w.bytes)
    /\ UNCHANGED snap

\* pdf = PdfFile(), once and after a write: the buffer keeps its bytes
NewFile ==
    /\ snap.phase = "build"
    /\ buf # <<>>
    /\ pdf' = NewPdfFile(DefaultVersion)
    /\ err' = ""
    /\ last' = Call("new", 0, NoneName, 0, <<>>)
    /\ snap' = [snap EXCEPT !.phase = "written"]
    /\ UNCHANGED buf

NextIo == Setup \/ AddPage \/ WriteBuffer \/ NewFile \/ ReadBuffer

SpecIo == Init /\ [][NextIo]_vars

-----------------------------------------------------------------------------
(* Reading the object graph *)

Sec(i) == pdf.sections[i]

Entries(sec) == sec.subsections[1]

\* the value a dictionary entry holds, shared values resolved
Resolve(d, v) == IF v.t = "cell" THEN d.cells[v.v] ELSE v

IsDictOfType(o, type) ==
    /\ o.contents.t = "dict"
    /\ DictHas(o.contents.v, S_Type)
    /\ DictGet(o.contents.v, S_Type) = VName(type)

\* the heap ids of the Font objects of the document
FontObjects(d) == {i \in 1..Len(d.heap) : IsDictOfType(d.heap[i], S_Font)}

\* the /Font resource dictionary of page p
FontResources(d, p) == DictGet(d.cells[d.pages[p].resources].v, S_Font).v

Mnemonics(ops) == [i \in 1..Len(ops) |-> ops[i].op]

Mutations == {"add_page", "add_font", "add_text", "add_content_stream"}

-----------------------------------------------------------------------------
(* Reading the written bytes *)

\* the line of b that starts at index s (1-based) is exactly kw
IsLineAt(b, s, kw) ==
    /\ s >= 1
    /\ s + Len(kw) - 1 <= Len(b)
    /\ (s = 1 \/ b[s - 1] = "\n")
    /\ (s + Len(kw) > Len(b) \/ b[s + Len(kw)] = "\n")
    /\ SubSeq(b, s, s + Len(kw) - 1) = kw

LinesEqual(b, kw) == {s \in 1..Len(b) : IsLineAt(b, s, kw)}

\* the index after the last byte of the run of non-separator bytes that starts at s
RunEnd(b, s, seps) ==
    CHOOSE e \in s..(Len(b) + 1) :
        /\ (e = Len(b) + 1 \/ b[e] \in seps)
        /\ \A f \in s..(e - 1) : b[f] \notin seps

\* the decimal number written at index s of b, up to the next separator
NumberAt(b, s) == DecValue(SubSeq(b, s, RunEnd(b, s, {" ", "\n"}) - 1))

\* the xref keyword that belongs to the startxref line at s: the last one before it
XrefBefore(b, s) ==
    CHOOSE x \in LinesEqual(b, K_xref) :
        x < s /\ \A y \in LinesEqual(b, K_xref) : y < s => y <= x

\* the entries of the first subsection of the xref table at index x of b:
\* object number, generation, in-use flag, the 10-digit field
XrefEntries(b, x) ==
    Bind(x + Len(K_xref) + 1, LAMBDA h :
    Bind(NumberAt(b, h), LAMBDA first :
    Bind(RunEnd(b, h, {" ", "\n"}) + 1, LAMBDA c :
    Bind(NumberAt(b, c), LAMBDA count :
    Bind(RunEnd(b, c, {" ", "\n"}) + 1, LAMBDA e0 :
        [k \in 1..count |->
            [n |-> first + k - 1,
             g |-> NumberAt(b, e0 + 20 * (k - 1) + 11),
             inuse |-> b[e0 + 20 * (k - 1) + 17] = "n",
             item |-> NumberAt(b, e0 + 20 * (k - 1))]])))))

-----------------------------------------------------------------------------
(* The bytes-based objects of src/pdfalcon/types.py, read with the         *)
(* tokenizer of src/pdfalcon/parsing.py                                     *)

\* the bytes 0x21..0x7E, in order (x60 is the grave accent)
Ascii33 ==
    <<"!", "\"", "#", "$", "%", "&", "'", "(", ")", "*", "+", ",", "-", ".", "/", "0",
      "1", "2", "3", "4", "5", "6", "7", "8", "9", ":", ";", "<", "=", ">", "?", "@",
      "A", "B", "C", "D", "E", "F", "G", "H", "I", "J", "K", "L", "M", "N", "O", "P",
      "Q", "R", "S", "T", "U", "V", "W", "X", "Y", "Z", "[", "\\", "]", "^", "_", "x60",
      "a", "b", "c", "d", "e", "f", "g", "h", "i", "j", "k", "l", "m", "n", "o", "p",
      "q", "r", "s", "t", "u", "v", "w", "x", "y", "z", "{", "|", "}", "~">>

\* the characters str.encode('us-ascii') accepts
IsAscii(c) == c \notin DOMAIN Utf8Table /\ c \notin HighBytes

\* the number of an ASCII byte
Ord(c) ==
    IF \E k \in 1..Len(Ascii33) : Ascii33[k] = c
    THEN 32 + (CHOOSE k \in 1..Len(Ascii33) : Ascii33[k] = c)
    ELSE IF c = " " THEN 32
    ELSE IF c = "\r" THEN 13
    ELSE IF c = "x0C" THEN 12
    ELSE IF c = "x0B" THEN 11
    ELSE IF c = "\n" THEN 10
    ELSE IF c = "\t" THEN 9
    ELSE IF c = "x7F" THEN 127
    ELSE 0

ALLOWED_NAME_CHARS ==
    {Ascii33[k] : k \in 1..Len(Ascii33)}
        \ {"#", "%", "/", "(", ")", "<", ">", "[", "]", "{", "}"}

HexUpper ==
    <<"0", "1", "2", "3", "4", "5", "6", "7", "8", "9", "A", "B", "C", "D", "E", "F">>

\* b"#%02X" % b
NameEscape(n) == <<"#", HexUpper[(n \div 16) + 1], HexUpper[(n % 16) + 1]>>

\* what formatting gives: the exception raised, the bytes
FR(e, bytes) == [err |-> e, bytes |-> bytes]

\* PdfName.__bytes__
PdfNameBytes(value) ==
    IF \E i \in 1..Len(value) : ~IsAscii(value[i]) THEN FR("UnicodeEncodeError", <<>>)
    ELSE FR("", <<"/">> \o Concat([i \in 1..Len(value) |->
                     IF value[i] \in ALLOWED_NAME_CHARS THEN <<value[i]>>
                     ELSE NameEscape(Ord(value[i]))]))

\* a read_tokens generator of parsing.py that has not been advanced yet: at
\* is cur_offset, the bytes it has gone through, pend the delimiter it gives
\* next
NewReader == [live |-> FALSE, done |-> FALSE, at |-> 0, pend |-> ""]

\* next(tokens, None) on a read_tokens generator of parsing.py with the
\* cursor at pos: the generator goes on from its own offset, reads the buffer
\* block after block, and seeks to the end of the token it gives
ReadTokens(b, pos, g) ==
    Bind(IF g.live THEN g.at ELSE pos, LAMBDA at :
    Bind(FirstNotIn(b, at + 1, Len(b), WhitespaceChars), LAMBDA i :
    Bind(FirstIn(b, i, Len(b), WhitespaceChars \cup Delimiters), LAMBDA j :
        IF g.done THEN [T(<<>>, pos, g, "") EXCEPT !.stop = TRUE]
        ELSE IF g.pend # "" THEN T(<<g.pend>>, at, [g EXCEPT !.pend = ""], "")
        ELSE IF i > Len(b)
        THEN [T(<<>>, IF at > Len(b) THEN at ELSE Len(b),
                [g EXCEPT !.live = TRUE, !.done = TRUE], "") EXCEPT !.stop = TRUE]
        ELSE IF b[i] \in Delimiters
        THEN T(<<b[i]>>, i, [g EXCEPT !.live = TRUE, !.at = i], "")
        ELSE IF j > Len(b)
        THEN T(SubSeq(b, i, Len(b)), Len(b), [g EXCEPT !.live = TRUE, !.at = Len(b)], "")
        ELSE IF b[j] \in Delimiters
        THEN T(SubSeq(b, i, j - 1), j - 1, [g EXCEPT !.live = TRUE, !.at = j, !.pend = b[j]], "")
        ELSE T(SubSeq(b, i, j - 1), j - 1, [g EXCEPT !.live = TRUE, !.at = j], ""))))

\* next(read_pdf_tokens(io_buffer), None)
ReadPdfTokens(b, pos) == ReadTokens(b, pos, NewReader)

\* the str of a literal string's bytes: UTF-16BE after a byte order mark (a
\* character outside ASCII stands as "u"), every byte its own character
\* otherwise
LiteralText(bs) ==
    IF Len(bs) >= 2 /\ bs[1] = "xFE" /\ bs[2] = "xFF"
    THEN (IF Len(bs) % 2 # 0 THEN [err |-> "UnicodeDecodeError", text |-> <<>>]
          ELSE [err |-> "",
                text |-> [k \in 1..((Len(bs) \div 2) - 1) |->
                             IF bs[2 * k + 1] = "x00" THEN bs[2 * k + 2] ELSE "u"]])
    ELSE [err |-> "", text |-> bs]

\* bytes.decode('us-ascii')
DecodeAscii(bs) ==
    IF \E i \in 1..Len(bs) : ~IsAscii(bs[i]) THEN [err |-> "UnicodeDecodeError", text |-> <<>>]
    ELSE [err |-> "", text |-> bs]

\* parse_pdf_object of types.py, the hex string branch, one pass of its
\* loop: hex holds the tokens read so far
TypesHexLoop(b, pos, g, hex) ==
    Bind(ReadTokens(b, pos, g), LAMBDA t :
    Bind(IF Len(hex) % 2 # 0 THEN hex \o <<"0">> ELSE hex, LAMBDA full :
        IF t.stop THEN PR("TypeError", t.pos, VNone)
        ELSE IF t.tok # <<">">> THEN Again(<<t.pos, t.g, hex \o t.tok>>)
        ELSE IF full = <<>> \/ \E i \in 1..Len(full) : full[i] \notin HexDigits
        THEN PR("PdfParseError", t.pos, VNone)
        ELSE PR("", t.pos, VHex(full))))

RECURSIVE TypesParseObject(_, _)
RECURSIVE TypesStreamParse(_, _, _)
RECURSIVE TypesParseDict(_, _)
RECURSIVE TypesDictLoop(_, _, _, _)
RECURSIVE TypesArrayLoop(_, _, _)

\* parse_pdf_object of types.py, the number branch: t1 is the first token
\* and the generator after it
TypesParseNumber(b, t1) ==
    Bind(t1.tok, LAMBDA first :
    Bind(ReadTokens(b, t1.pos, t1.g), LAMBDA t2 :
    Bind(ReadTokens(b, t2.pos, t2.g), LAMBDA t3 :
        IF ~IsInt(first)
        THEN (IF IsFloat(first) THEN PR("", t1.pos, VNum(FloatText(first)))
              ELSE PR("PdfParseError", t1.pos, VNone))
        ELSE IF t2.stop THEN PR("TypeError", t2.pos, VNone)
        ELSE IF ~IsInt(t2.tok) THEN PR("", t1.pos, VInt(IntValue(first)))
        ELSE IF ~t3.stop /\ t3.tok = <<"R">>
        THEN PR("", t3.pos, VRef(IntValue(first), IntValue(t2.tok)))
        ELSE PR("", t1.pos, VInt(IntValue(first))))))

\* parse_pdf_object of types.py with the cursor at pos
TypesParseObject(b, pos) ==
    Bind(ReadPdfTokens(b, pos), LAMBDA t1 :
    Bind(t1.tok, LAMBDA first :
    Bind(ReadTokens(b, t1.pos, t1.g), LAMBDA t2 :
        IF t1.stop THEN PR("PdfParseError", t1.pos, VNone)
        ELSE IF first = <<"<">>
        THEN (IF ~t2.stop /\ t2.tok = <<"<">>
              THEN Bind(TypesParseDict(b, pos), LAMBDA dct :
                   Bind(ReadPdfTokens(b, dct.pos), LAMBDA ts :
                       IF dct.err # "" THEN dct
                       ELSE IF ~ts.stop /\ ts.tok = K_stream
                       THEN TypesStreamParse(b, FirstLine(b, ts.pos).pos, dct.val)
                       ELSE dct))
              ELSE IF t2.stop THEN PR("TypeError", t2.pos, VNone)
              ELSE Loop(LAMBDA s : TypesHexLoop(b, s[1], s[2], s[3]),
                        Again(<<t2.pos, t2.g, t2.tok>>)))
        ELSE IF first = <<"]">> \/ first = <<"}">> THEN PR("", t1.pos, VRaw(first))
        ELSE IF first = <<"[">>
        THEN Loop(LAMBDA s : TypesArrayLoop(b, s[1], s[2]), Again(<<t1.pos, <<>>>>))
        ELSE IF first = <<"{">> THEN PR("PdfParseError", t1.pos, VNone)
        ELSE IF first = <<"(">>
        THEN Bind(LiteralEnd(b, t1.pos + 1, 0), LAMBDA e :
             Bind(LiteralText(SubSeq(b, t1.pos + 1, e - 1)), LAMBDA text :
                 IF e = 0 THEN PR("Hang", Len(b), VNone)
                 ELSE IF text.err # "" THEN PR(text.err, e, VNone)
                 ELSE PR("", e, VStr(text.text))))
        ELSE IF first = <<"t", "r", "u", "e">> THEN PR("", t1.pos, VBool(TRUE))
        ELSE IF first = <<"f", "a", "l", "s", "e">> THEN PR("", t1.pos, VBool(FALSE))
        ELSE IF first = <<"n", "u", "l", "l">> THEN PR("", t1.pos, VNull)
        ELSE IF first = <<"%">>
        THEN Bind(FirstLine(b, t1.pos), LAMBDA l :
             Bind(Decode(l.line), LAMBDA text :
                 IF text.err # "" THEN PR(text.err, l.pos, VNone)
                 ELSE PR("", l.pos, VComment(text.text))))
        ELSE IF first = <<"/">>
        THEN Bind(DecodeAscii(t2.tok), LAMBDA name :
                 IF t2.stop THEN PR("TypeError", t2.pos, VNone)
                 ELSE IF t1.pos # t2.pos - Len(t2.tok) THEN PR("PdfParseError", t2.pos, VNone)
                 ELSE IF name.err # "" THEN PR(name.err, t2.pos, VNone)
                 ELSE PR("", t2.pos, VName(name.text)))
        ELSE TypesParseNumber(b, t1))))

\* parse_pdf_object of types.py, the array branch, one pass of its loop:
\* items holds the items read so far
TypesArrayLoop(b, pos, items) ==
    Bind(TypesParseObject(b, pos), LAMBDA o :
        IF o.err # "" THEN o
        ELSE IF o.val.t = "comment" THEN Again(<<o.pos, items>>)
        ELSE IF o.val.t = "raw" /\ o.val.v = <<"]">> THEN PR("", o.pos, VArr(items))
        ELSE Again(<<o.pos, Append(items, o.val)>>))

\* PdfDict.parse of types.py
TypesParseDict(b, pos) ==
    Bind(ReadPdfTokens(b, pos), LAMBDA t1 :
    Bind(ReadTokens(b, t1.pos, t1.g), LAMBDA t2 :
        IF t1.stop \/ t1.tok # <<"<">> \/ t2.stop \/ t2.tok # <<"<">>
        THEN PR("PdfParseError", t2.pos, VNone)
        ELSE Loop(LAMBDA s : TypesDictLoop(b, s[1], s[2], s[3]),
                  Again(<<t2.pos, NoKey, <<>>>>))))

\* PdfDict.parse of types.py, one pass of its loop: key is current_key,
\* items the entries set so far.  Numbers and dictionaries do not hash, and
\* a key that was parsed is equal to no key parsed before it, whatever its
\* text: every entry of the input is an entry of the dictionary
TypesDictLoop(b, pos, key, items) ==
    Bind(ReadPdfTokens(b, pos), LAMBDA ta :
    Bind(ReadTokens(b, ta.pos, ta.g), LAMBDA tb :
    Bind(TypesParseObject(b, pos), LAMBDA o :
        IF ~ta.stop /\ ta.tok = <<">">>
        THEN (IF tb.stop \/ tb.tok # <<">">> THEN PR("PdfParseError", tb.pos, VNone)
              ELSE PR("", tb.pos, VDict(items)))
        ELSE IF o.err # "" THEN o
        ELSE IF o.val.t = "comment" THEN Again(<<o.pos, key, items>>)
        ELSE IF key = NoKey THEN Again(<<o.pos, [t |-> "key", val |-> o.val, at |-> pos], items>>)
        ELSE IF key.val.t \in {"dict", "int", "real"} THEN PR("TypeError", o.pos, VNone)
        ELSE Again(<<o.pos, NoKey, Append(items, <<KeyText(key.val, key.at), o.val>>)>>))))

\* the operators of types.py: for each class the token it is written with
\* and the kinds of the operands its constructor takes.  PathCurve3Operation,
\* the class of the operator y, is written with the token c
Real6 == <<"real", "real", "real", "real", "real", "real">>
Real4 == <<"real", "real", "real", "real">>
Real2 == <<"real", "real">>

StateOperations ==
    ("q" :> <<>>) @@ ("Q" :> <<>>) @@ ("cm" :> Real6) @@ ("w" :> <<"real">>)
    @@ ("J" :> <<"int">>) @@ ("j" :> <<"int">>) @@ ("M" :> <<"real">>)
    @@ ("d" :> <<"array", "real">>) @@ ("ri" :> <<"name">>) @@ ("i" :> <<"real">>)
    @@ ("gs" :> <<"name">>)

TextOperations ==
    ("Tj" :> <<"literal">>) @@ ("TL" :> <<"real">>) @@ ("Tf" :> <<"name", "real">>)
    @@ ("Tm" :> Real6) @@ ("T*" :> <<>>) @@ ("Tc" :> <<"real">>) @@ ("Tw" :> <<"real">>)
    @@ ("Tz" :> <<"real">>) @@ ("Tr" :> <<"int">>) @@ ("Ts" :> <<"real">>)

PathOperations ==
    ("m" :> Real2) @@ ("re" :> Real4) @@ ("l" :> Real2) @@ ("c" :> Real6)
    @@ ("v" :> Real4) @@ ("y" :> Real4) @@ ("h" :> <<>>)

PathPaintOperations ==
    ("S" :> <<>>) @@ ("s" :> <<>>) @@ ("f" :> <<>>) @@ ("F" :> <<>>) @@ ("f*" :> <<>>)
    @@ ("B" :> <<>>) @@ ("B*" :> <<>>) @@ ("b" :> <<>>) @@ ("b*" :> <<>>) @@ ("n" :> <<>>)

ClipOperations == ("W" :> <<>>) @@ ("W*" :> <<>>)

Operations ==
    StateOperations @@ TextOperations @@ PathOperations @@ PathPaintOperations
    @@ ClipOperations

\* the token of a class
Token ==
    ("q" :> <<"q">>) @@ ("Q" :> <<"Q">>) @@ ("cm" :> <<"c", "m">>) @@ ("w" :> <<"w">>)
    @@ ("J" :> <<"J">>) @@ ("j" :> <<"j">>) @@ ("M" :> <<"M">>) @@ ("d" :> <<"d">>)
    @@ ("ri" :> <<"r", "i">>) @@ ("i" :> <<"i">>) @@ ("gs" :> <<"g", "s">>)
    @@ ("Tj" :> <<"T", "j">>) @@ ("TL" :> <<"T", "L">>) @@ ("Tf" :> <<"T", "f">>)
    @@ ("Tm" :> <<"T", "m">>) @@ ("T*" :> <<"T", "*">>) @@ ("Tc" :> <<"T", "c">>)
    @@ ("Tw" :> <<"T", "w">>) @@ ("Tz" :> <<"T", "z">>) @@ ("Tr" :> <<"T", "r">>)
    @@ ("Ts" :> <<"T", "s">>)
    @@ ("m" :> <<"m">>) @@ ("re" :> <<"r", "e">>) @@ ("l" :> <<"l">>) @@ ("c" :> <<"c">>)
    @@ ("v" :> <<"v">>) @@ ("y" :> <<"c">>) @@ ("h" :> <<"h">>)
    @@ ("S" :> <<"S">>) @@ ("s" :> <<"s">>) @@ ("f" :> <<"f">>) @@ ("F" :> <<"F">>)
    @@ ("f*" :> <<"f", "*">>) @@ ("B" :> <<"B">>) @@ ("B*" :> <<"B", "*">>)
    @@ ("b" :> <<"b">>) @@ ("b*" :> <<"b", "*">>) @@ ("n" :> <<"n">>)
    @@ ("W" :> <<"W">>) @@ ("W*" :> <<"W", "*">>)

\* the class a map of a parser gives for a token, "" if the token is no key
\* of it: keys is the map's classes, later keys hiding earlier ones
Lookup(keys, tok) ==
    IF \E k \in 1..Len(keys) : Token[keys[k]] = tok
    THEN keys[CHOOSE k \in 1..Len(keys) :
                 Token[keys[k]] = tok /\ \A x \in (k + 1)..Len(keys) : Token[keys[x]] # tok]
    ELSE ""

\* PdfStream.op_map
StreamOpMap == <<"q", "Q", "cm", "w", "J", "j", "M", "d", "ri", "i", "gs">>
\* StreamTextObject.op_map
TextOpMap == <<"Tj", "TL", "Tf", "Tm", "T*", "Tc", "Tw", "Tz", "Tr", "Ts">>
\* StreamPathObject.op_map: the key b'c' is written twice, the second hides
\* the first, and there is no key for y
PathOpMap == <<"m", "re", "l", "c", "v", "y", "h">>
\* path_paint_op_map of StreamPathObject and StreamClippingPathObject
PathPaintOpMap == <<"S", "s", "f", "F", "f*", "B", "B*", "b", "b*", "n">>

\* len(inspect.signature(cls).parameters)
Arity(m) == Len(Operations[m])

\* bytes(PdfReal(x)): b'%f' % float(x)
PdfRealBytes(v) ==
    IF v.t = "int" THEN FR("", Str(v.v) \o <<".", "0", "0", "0", "0", "0", "0">>)
    ELSE IF v.t = "real"
    THEN Bind(FirstIn(v.v, 1, Len(v.v), {"."}), LAMBDA dot :
            FR("", SubSeq(v.v, 1, dot)
                   \o [k \in 1..6 |-> IF dot + k <= Len(v.v) THEN v.v[dot + k] ELSE "0"]))
    ELSE IF v.t \in {"str", "name"} THEN FR("ValueError", <<>>)
    ELSE FR("TypeError", <<>>)

\* bytes(PdfInteger(x)): b'%d' % int(x)
PdfIntegerBytes(v) ==
    IF v.t = "int" THEN FR("", Str(v.v))
    ELSE IF v.t = "real" THEN FR("", SubSeq(v.v, 1, FirstIn(v.v, 1, Len(v.v), {"."}) - 1))
    ELSE IF v.t \in {"str", "name"} THEN FR("ValueError", <<>>)
    ELSE FR("TypeError", <<>>)

\* str(x) for an operand
StrOf(v) ==
    IF v.t = "none" THEN S_None ELSE IF v.t = "int" THEN Str(v.v) ELSE v.v

\* bytes(PdfLiteralString(x)): b'(%b)' % str(x).encode('utf_16_be'), for
\* ASCII text
PdfLiteralStringBytes(v) ==
    FR("", <<"(">> \o Concat([k \in 1..Len(StrOf(v)) |-> <<"x00", StrOf(v)[k]>>]) \o <<")">>)

\* bytes.split(sep) for a separator of one byte
RECURSIVE SplitOn(_, _)
SplitOn(cs, sep) ==
    Bind(FirstIn(cs, 1, Len(cs), {sep}), LAMBDA e :
        IF e > Len(cs) THEN <<cs>>
        ELSE <<SubSeq(cs, 1, e - 1)>> \o SplitOn(SubSeq(cs, e + 1, Len(cs)), sep))

\* sep.join(parts) of formatted parts: the first exception raised wins
JoinBytes(parts, sep) ==
    IF \E k \in 1..Len(parts) : parts[k].err # ""
    THEN FR(parts[CHOOSE k \in 1..Len(parts) :
                      parts[k].err # "" /\ \A x \in 1..(k - 1) : parts[x].err = ""].err, <<>>)
    ELSE FR("", Join([k \in 1..Len(parts) |-> parts[k].bytes], sep))

\* the lines of formatted contents, each after two spaces
Indented(parts) ==
    IF \E k \in 1..Len(parts) : parts[k].err # "" THEN <<JoinBytes(parts, <<>>)>>
    ELSE Bind(Concat([k \in 1..Len(parts) |-> SplitOn(parts[k].bytes, "\n")]), LAMBDA lines :
             [k \in 1..Len(lines) |-> FR("", <<" ", " ">> \o lines[k])])

\* the operand o.args[k] as the class of o writes it; an operand that was
\* not given is None
OperandBytes(o, k) ==
    Bind(IF k <= Len(o.args) THEN o.args[k] ELSE VNone, LAMBDA v :
    Bind(Operations[o.op][k], LAMBDA kind :
        IF kind = "real" THEN PdfRealBytes(v)
        ELSE IF kind = "int" THEN PdfIntegerBytes(v)
        ELSE IF kind = "name" THEN PdfNameBytes(StrOf(v))
        ELSE PdfLiteralStringBytes(v)))

RECURSIVE Bytes(_)
\* bytes(o) for an operator or a graphics object o
Bytes(o) ==
    IF o.op = "BT"
    THEN JoinBytes(<<FR("", <<"B", "T">>)>>
                   \o Indented([k \in 1..Len(o.ops) |-> Bytes(o.ops[k])])
                   \o <<FR("", <<"E", "T">>)>>, <<"\n">>)
    ELSE IF o.op = "path"
    THEN JoinBytes(Indented([k \in 1..Len(o.ops) |-> Bytes(o.ops[k])]), <<"\n">>)
    ELSE IF o.op = "clip"
    THEN JoinBytes([k \in 1..Len(o.ops) |-> Bytes(o.ops[k])], <<"\n">>)
    ELSE IF o.op = "Do"
    THEN (IF Len(o.args) = 1 /\ o.args[1].t = "name"
          THEN JoinBytes(<<PdfNameBytes(o.args[1].v), FR("", <<"D", "o">>)>>, <<" ">>)
          ELSE FR("TypeError", <<>>))
    ELSE IF o.op = "d"
    THEN (IF Len(o.args) >= 1 /\ o.args[1].t = "arr"
             /\ \E k \in 1..Len(o.args[1].v) : o.args[1].v[k].v # 0
          THEN FR("TypeError", <<>>)
          ELSE IF Len(o.args) >= 1 /\ o.args[1].t = "arr" THEN FR("AssertionError", <<>>)
          ELSE FR("TypeError", <<>>))
    ELSE IF o.op = "Tr"
    THEN (IF OperandBytes(o, 1).err # "" THEN OperandBytes(o, 1) ELSE FR("ValueError", <<>>))
    ELSE JoinBytes([k \in 1..Arity(o.op) |-> OperandBytes(o, k)] \o <<FR("", Token[o.op])>>,
                   <<" ">>)

\* b'\n'.join(map(bytes, contents)) of PdfStream.__bytes__
ContentsBytes(contents) ==
    JoinBytes([k \in 1..Len(contents) |-> Bytes(contents[k])], <<"\n">>)

\* the value attribute of a parsed object: a Python int, float, str, bool,
\* list or dict; a null, a reference and a bare token have none
HasValue(v) == v.t \notin {"null", "ref", "raw"}
ValueOf(v) == IF v.t \in {"name", "hex", "comment"} THEN VStr(v.v) ELSE v

RECURSIVE TypesParseText(_, _)
RECURSIVE TypesTextLoop(_, _, _, _, _)
RECURSIVE TypesParsePath(_, _, _)
RECURSIVE TypesPathLoop(_, _, _, _, _)
RECURSIVE TypesParseClip(_, _, _)
RECURSIVE TypesClipLoop(_, _, _, _, _)

\* PdfStream._parse_stream_object, one call of it with _op_args = args
TypesStreamArgs(b, pos, args) ==
    Bind(ReadPdfTokens(b, pos), LAMBDA t :
    Bind(Lookup(StreamOpMap, t.tok), LAMBDA m :
    Bind(TypesParseObject(b, pos), LAMBDA o :
        IF t.stop THEN PR("", t.pos, EndOfStream)
        ELSE IF m # ""
        THEN (IF Len(args) # Arity(m) THEN PR("PdfParseError", t.pos, VNone)
              ELSE PR("", t.pos, Op(m, args, <<>>)))
        ELSE IF t.tok = <<"B", "T">> THEN TypesParseText(b, pos)
        ELSE IF t.tok = <<"D", "o">>
        THEN (IF Len(args) > 1 THEN PR("TypeError", t.pos, VNone)
              ELSE PR("", t.pos, Op("Do", args, <<>>)))
        ELSE IF t.tok = <<"m">>
        THEN (IF Len(args) > 2 THEN PR("TypeError", t.pos, VNone)
              ELSE TypesParsePath(b, t.pos, <<Op("m", args, <<>>)>>))
        ELSE IF t.tok = <<"r", "e">>
        THEN (IF Len(args) > 4 THEN PR("TypeError", t.pos, VNone)
              ELSE TypesParsePath(b, t.pos, <<Op("re", args, <<>>)>>))
        ELSE IF o.err # "" THEN o
        ELSE IF ~HasValue(o.val) THEN PR("AttributeError", o.pos, VNone)
        ELSE Again(<<o.pos, Append(args, ValueOf(o.val))>>))))

\* PdfStream._parse_stream_object: it calls itself with one more operand in
\* _op_args until it meets an operator or the end of the buffer
TypesParseStreamObject(b, pos) ==
    Loop(LAMBDA s : TypesStreamArgs(b, s[1], s[2]), Again(<<pos, <<>>>>))

\* StreamTextObject.parse
TypesParseText(b, pos) ==
    Bind(ReadPdfTokens(b, pos), LAMBDA t :
        IF t.stop THEN PR("PdfParseError", t.pos, VNone)
        ELSE Loop(LAMBDA s : TypesTextLoop(b, s[1], s[2], s[3], s[4]),
                  Again(<<t.pos, t.g, <<>>, <<>>>>)))

\* StreamTextObject.parse, one pass of its loop: g is the generator in use,
\* args the operands read since the last operator, ops the contents so far
TypesTextLoop(b, pos, g, args, ops) ==
    Bind(ReadTokens(b, pos, g), LAMBDA t :
    Bind(Lookup(TextOpMap, t.tok), LAMBDA m :
    Bind(TypesParseObject(b, pos), LAMBDA o :
        IF t.stop THEN PR("PdfParseError", t.pos, VNone)
        ELSE IF t.tok = <<"E", "T">>
        THEN (IF Len(args) # 0 THEN PR("PdfParseError", t.pos, VNone)
              ELSE PR("", t.pos, Op("BT", <<>>, ops)))
        ELSE IF m # ""
        THEN (IF Len(args) # Arity(m) THEN PR("PdfParseError", t.pos, VNone)
              ELSE Again(<<t.pos, t.g, <<>>, Append(ops, Op(m, args, <<>>))>>))
        ELSE IF o.err # "" THEN o
        ELSE Again(<<o.pos, NewReader, Append(args, o.val), ops>>))))

\* StreamPathObject.parse on a path whose contents hold the m or re read
\* by the caller: the first token it reads is dropped
TypesParsePath(b, pos, contents) ==
    Bind(ReadPdfTokens(b, pos), LAMBDA t :
        IF t.stop THEN PR("PdfParseError", t.pos, VNone)
        ELSE Loop(LAMBDA s : TypesPathLoop(b, s[1], s[2], s[3], s[4]),
                  Again(<<t.pos, t.g, <<>>, contents>>)))

\* StreamPathObject.parse, one pass of its loop
TypesPathLoop(b, pos, g, args, ops) ==
    Bind(ReadTokens(b, pos, g), LAMBDA t :
    Bind(Lookup(PathPaintOpMap, t.tok), LAMBDA paint :
    Bind(Lookup(PathOpMap, t.tok), LAMBDA m :
    Bind(TypesParseClip(b, t.pos, <<Op(IF t.tok = <<"W">> THEN "W" ELSE "W*", <<>>, <<>>)>>), LAMBDA clip :
    Bind(TypesParseObject(b, pos), LAMBDA o :
        IF t.stop THEN PR("PdfParseError", t.pos, VNone)
        ELSE IF paint # ""
        THEN (IF Len(args) # Arity(paint) THEN PR("PdfParseError", t.pos, VNone)
              ELSE PR("", t.pos, Op("path", <<>>, Append(ops, Op(paint, args, <<>>)))))
        ELSE IF t.tok = <<"W">> \/ t.tok = <<"W", "*">>
        THEN (IF clip.err # "" THEN clip
              ELSE PR("", clip.pos, Op("path", <<>>, Append(ops, clip.val))))
        ELSE IF m # ""
        THEN (IF Len(args) # Arity(m) THEN PR("PdfParseError", t.pos, VNone)
              ELSE Again(<<t.pos, t.g, <<>>, Append(ops, Op(m, args, <<>>))>>))
        ELSE IF o.err # "" THEN o
        ELSE Again(<<o.pos, NewReader, Append(args, o.val), ops>>))))))

\* StreamClippingPathObject.parse on a clipping path whose contents hold the
\* W or W* read by the caller: the first token it reads is dropped
TypesParseClip(b, pos, contents) ==
    Bind(ReadPdfTokens(b, pos), LAMBDA t :
        IF t.stop THEN PR("PdfParseError", t.pos, VNone)
        ELSE Loop(LAMBDA s : TypesClipLoop(b, s[1], s[2], s[3], s[4]),
                  Again(<<t.pos, t.g, <<>>, contents>>)))

\* StreamClippingPathObject.parse, one pass of its loop
TypesClipLoop(b, pos, g, args, ops) ==
    Bind(ReadTokens(b, pos, g), LAMBDA t :
    Bind(Lookup(PathPaintOpMap, t.tok), LAMBDA paint :
    Bind(TypesParseObject(b, pos), LAMBDA o :
        IF t.stop THEN PR("PdfParseError", t.pos, VNone)
        ELSE IF paint # ""
        THEN (IF Len(args) # Arity(paint) THEN PR("PdfParseError", t.pos, VNone)
              ELSE PR("", t.pos, Op("clip", <<>>, Append(ops, Op(paint, args, <<>>)))))
        ELSE IF o.err # "" THEN o
        ELSE Again(<<o.pos, NewReader, Append(args, o.val), ops>>))))

\* the loop of PdfStream.parse over the contents: _parse_stream_object
\* until it returns None; val holds the operators read
ParseOpsLoop(b, pos, ops) ==
    Bind(TypesParseStreamObject(b, pos), LAMBDA so :
        IF so.err # "" THEN so
        ELSE IF so.val = EndOfStream THEN PR("", so.pos, ops)
        ELSE Again(<<so.pos, Append(ops, so.val)>>))

ParseOps(b) == Loop(LAMBDA s : ParseOpsLoop(b, s[1], s[2]), Again(<<0, <<>>>>))

-----------------------------------------------------------------------------
(* The stream filters of PdfStream in src/pdfalcon/types.py *)

\* the 256 bytes in the order of their numbers (x60 is the grave accent)
ByteTable ==
    <<"x00", "x01", "x02", "x03", "x04", "x05", "x06", "x07", "x08", "\t", "\n", "x0B", "x0C", "\r", "x0E", "x0F",
      "x10", "x11", "x12", "x13", "x14", "x15", "x16", "x17", "x18", "x19", "x1A", "x1B", "x1C", "x1D", "x1E", "x1F",
      " ", "!", "\"", "#", "$", "%", "&", "'", "(", ")", "*", "+", ",", "-", ".", "/",
      "0", "1", "2", "3", "4", "5", "6", "7", "8", "9", ":", ";", "<", "=", ">", "?",
      "@", "A", "B", "C", "D", "E", "F", "G", "H", "I", "J", "K", "L", "M", "N", "O",
      "P", "Q", "R", "S", "T", "U", "V", "W", "X", "Y", "Z", "[", "\\", "]", "^", "_",
      "x60", "a", "b", "c", "d", "e", "f", "g", "h", "i", "j", "k", "l", "m", "n", "o",
      "p", "q", "r", "s", "t", "u", "v", "w", "x", "y", "z", "{", "|", "}", "~", "x7F",
      "x80", "x81", "x82", "x83", "x84", "x85", "x86", "x87", "x88", "x89", "x8A", "x8B", "x8C", "x8D", "x8E", "x8F",
      "x90", "x91", "x92", "x93", "x94", "x95", "x96", "x97", "x98", "x99", "x9A", "x9B", "x9C", "x9D", "x9E", "x9F",
      "xA0", "xA1", "xA2", "xA3", "xA4", "xA5", "xA6", "xA7", "xA8", "xA9", "xAA", "xAB", "xAC", "xAD", "xAE", "xAF",
      "xB0", "xB1", "xB2", "xB3", "xB4", "xB5", "xB6", "xB7", "xB8", "xB9", "xBA", "xBB", "xBC", "xBD", "xBE", "xBF",
      "xC0", "xC1", "xC2", "xC3", "xC4", "xC5", "xC6", "xC7", "xC8", "xC9", "xCA", "xCB", "xCC", "xCD", "xCE", "xCF",
      "xD0", "xD1", "xD2", "xD3", "xD4", "xD5", "xD6", "xD7", "xD8", "xD9", "xDA", "xDB", "xDC", "xDD", "xDE", "xDF",
      "xE0", "xE1", "xE2", "xE3", "xE4", "xE5", "xE6", "xE7", "xE8", "xE9", "xEA", "xEB", "xEC", "xED", "xEE", "xEF",
      "xF0", "xF1", "xF2", "xF3", "xF4", "xF5", "xF6", "xF7", "xF8", "xF9", "xFA", "xFB", "xFC", "xFD", "xFE", "xFF">>

\* the number of a byte, and the byte of a number
ByteNumber(c) == (CHOOSE k \in 1..256 : ByteTable[k] = c) - 1
ByteOf(n) == ByteTable[n + 1]

HexLower ==
    <<"0", "1", "2", "3", "4", "5", "6", "7", "8", "9", "a", "b", "c", "d", "e", "f">>

\* contents.hex().encode('ascii')
BytesHex(bs) ==
    [k \in 1..(2 * Len(bs)) |->
        IF k % 2 = 1 THEN HexLower[(ByteNumber(bs[(k + 1) \div 2]) \div 16) + 1]
        ELSE HexLower[(ByteNumber(bs[k \div 2]) % 16) + 1]]

\* the value of a hex digit, -1 for any other character
HexValue(c) ==
    IF \E k \in 1..16 : HexLower[k] = c THEN (CHOOSE k \in 1..16 : HexLower[k] = c) - 1
    ELSE IF \E k \in 11..16 : HexUpper[k] = c THEN (CHOOSE k \in 11..16 : HexUpper[k] = c) - 1
    ELSE -1

\* bytes.fromhex(contents.decode('ascii')): whitespace between the pairs
\* is skipped
RECURSIVE BytesFromHex(_)
BytesFromHex(bs) ==
    IF \E k \in 1..Len(bs) : ByteNumber(bs[k]) > 127 THEN FR("UnicodeDecodeError", <<>>)
    ELSE IF bs = <<>> THEN FR("", <<>>)
    ELSE IF bs[1] \in WhitespaceChars \ {"x00"} THEN BytesFromHex(Tail(bs))
    ELSE IF Len(bs) < 2 \/ HexValue(bs[1]) < 0 \/ HexValue(bs[2]) < 0 THEN FR("ValueError", <<>>)
    ELSE Bind(BytesFromHex(SubSeq(bs, 3, Len(bs))), LAMBDA r :
             IF r.err # "" THEN r
             ELSE FR("", <<ByteOf(16 * HexValue(bs[1]) + HexValue(bs[2]))>> \o r.bytes))

\* w[lo] + ... + w[hi]
RECURSIVE SumOver(_, _, _)
SumOver(w, lo, hi) ==
    IF lo > hi THEN 0
    ELSE IF lo = hi THEN w[lo]
    ELSE SumOver(w, lo, (lo + hi) \div 2) + SumOver(w, ((lo + hi) \div 2) + 1, hi)

\* the Adler-32 checksum zlib ends its output with: s[1] is one plus the sum
\* of the bytes, s[2] the sum of the values s[1] has after each byte, both
\* modulo 65521
Adler32(bs) ==
    <<(1 + SumOver([k \in 1..Len(bs) |-> ByteNumber(bs[k])], 1, Len(bs))) % 65521,
      (Len(bs) + SumOver([k \in 1..Len(bs) |-> (Len(bs) + 1 - k) * ByteNumber(bs[k])],
                         1, Len(bs))) % 65521>>

\* the four bytes of a checksum, the high ones first
AdlerBytes(s) ==
    <<ByteOf(s[2] \div 256), ByteOf(s[2] % 256), ByteOf(s[1] \div 256), ByteOf(s[1] % 256)>>

\* the two bytes a zlib stream of the default level starts with
ZlibHeader == <<"x", "x9C">>

\* zlib.compress(contents): the header, the deflated data and the checksum
\* of the data.  The Huffman coding of the data is left out: the data stand
\* in the place of their coding
ZlibCompress(bs) == ZlibHeader \o bs \o AdlerBytes(Adler32(bs))

\* zlib.decompress(contents): zlib.error for bytes that are no zlib stream
\* or whose checksum is not that of the data
ZlibDecompress(bs) ==
    IF Len(bs) < 6 \/ SubSeq(bs, 1, 2) # ZlibHeader THEN FR("error", <<>>)
    ELSE Bind(SubSeq(bs, 3, Len(bs) - 4), LAMBDA data :
             IF SubSeq(bs, Len(bs) - 3, Len(bs)) # AdlerBytes(Adler32(data))
             THEN FR("error", <<>>)
             ELSE FR("", data))

\* one step of writing a word of four bytes in base 85: w divided by 85,
\* byte by byte; q is the quotient so far, r the remainder
RECURSIVE DivMod85(_, _, _)
DivMod85(w, q, r) ==
    IF w = <<>> THEN [q |-> q, r |-> r]
    ELSE DivMod85(Tail(w), Append(q, (256 * r + Head(w)) \div 85), (256 * r + Head(w)) % 85)

\* the five base-85 digits of a word of four bytes, the high one first
RECURSIVE Digits85(_, _)
Digits85(w, n) ==
    IF n = 0 THEN <<>>
    ELSE Bind(DivMod85(w, <<>>, 0), LAMBDA d : Digits85(d.q, n - 1) \o <<d.r>>)

\* the characters base64.a85encode writes for a word: z for a word of
\* zeros, five digits from "!" on for any other
Chunk85(w) ==
    IF w = <<0, 0, 0, 0>> THEN <<"z">>
    ELSE [k \in 1..5 |-> ByteOf(33 + Digits85(w, 5)[k])]

\* base64.a85encode(contents, adobe=True): the words of four bytes, the
\* last one filled up with zeros and written without the characters of the
\* filling, between <~ and ~>
A85Encode(bs) ==
    Bind((4 - (Len(bs) % 4)) % 4, LAMBDA padding :
    Bind([k \in 1..(Len(bs) + padding) |-> IF k <= Len(bs) THEN ByteNumber(bs[k]) ELSE 0],
         LAMBDA padded :
    Bind([k \in 1..(Len(padded) \div 4) |-> Chunk85(SubSeq(padded, 4 * k - 3, 4 * k))],
         LAMBDA chunks :
    Bind(IF padding # 0
         THEN Bind(IF chunks[Len(chunks)] = <<"z">> THEN <<"!", "!", "!", "!", "!">>
                   ELSE chunks[Len(chunks)], LAMBDA c :
                  [chunks EXCEPT ![Len(chunks)] = SubSeq(c, 1, 5 - padding)])
         ELSE chunks, LAMBDA cut :
        <<"<", "~">> \o Concat(cut) \o <<"~", ">">>))))

\* one step of reading a word of five base-85 digits: w times 85 plus d,
\* byte by byte from the low byte; c is what is carried
RECURSIVE MulAdd85(_, _)
MulAdd85(w, c) ==
    IF w = <<>> THEN [w |-> <<>>, c |-> c]
    ELSE Bind(85 * w[Len(w)] + c, LAMBDA x :
         Bind(MulAdd85(SubSeq(w, 1, Len(w) - 1), x \div 256), LAMBDA r :
             [w |-> Append(r.w, x % 256), c |-> r.c]))

\* the word of five digits, c is not 0 when it does not fit four bytes
RECURSIVE Word85(_, _)
Word85(ds, r) ==
    IF ds = <<>> THEN r
    ELSE Bind(MulAdd85(r.w, Head(ds)), LAMBDA m :
             Word85(Tail(ds), [w |-> m.w, c |-> IF r.c # 0 THEN r.c ELSE m.c]))

\* base64.a85decode, one pass of its loop over the characters: i is the
\* place of the character, curr the digits of the word begun, out the bytes
\* decoded
A85Loop(cs, i, curr, out) ==
    Bind(IF i <= Len(cs) THEN ByteNumber(cs[i]) ELSE 0, LAMBDA x :
    Bind(Word85(Append(curr, x - 33), [w |-> <<0, 0, 0, 0>>, c |-> 0]), LAMBDA word :
        IF i > Len(cs)
        THEN FR("", SubSeq(out, 1, Len(out) - (4 - Len(curr))))
        ELSE IF x >= 33 /\ x <= 117
        THEN (IF Len(curr) < 4 THEN Again(<<i + 1, Append(curr, x - 33), out>>)
              ELSE IF word.c # 0 THEN FR("ValueError", <<>>)
              ELSE Again(<<i + 1, <<>>, out \o [k \in 1..4 |-> ByteOf(word.w[k])]>>))
        ELSE IF cs[i] = "z"
        THEN (IF curr # <<>> THEN FR("ValueError", <<>>)
              ELSE Again(<<i + 1, curr, out \o <<"x00", "x00", "x00", "x00">>>>))
        ELSE IF cs[i] \in {" ", "\t", "\n", "\r", "x0B"} THEN Again(<<i + 1, curr, out>>)
        ELSE FR("ValueError", <<>>)))

\* base64.a85decode(contents, adobe=True): the bytes have to end with ~>,
\* a <~ they start with is dropped, and four u fill up the last word
A85Decode(bs) ==
    IF Len(bs) < 2 \/ SubSeq(bs, Len(bs) - 1, Len(bs)) # <<"~", ">">> THEN FR("ValueError", <<>>)
    ELSE Bind(IF Len(bs) >= 2 /\ SubSeq(bs, 1, 2) = <<"<", "~">>
              THEN SubSeq(bs, 3, Len(bs) - 2) ELSE SubSeq(bs, 1, Len(bs) - 2), LAMBDA body :
             Loop(LAMBDA s : A85Loop(body \o <<"u", "u", "u", "u">>, s[1], s[2], s[3]),
                  Again(<<1, <<>>, <<>>>>)))

\* the names of the filters PdfStream knows
F_ASCII85Decode == <<"A", "S", "C", "I", "I", "8", "5", "D", "e", "c", "o", "d", "e">>
F_FlateDecode == <<"F", "l", "a", "t", "e", "D", "e", "c", "o", "d", "e">>
F_DCTDecode == <<"D", "C", "T", "D", "e", "c", "o", "d", "e">>
F_ASCIIHexDecode == <<"A", "S", "C", "I", "I", "H", "e", "x", "D", "e", "c", "o", "d", "e">>
S_Filter == <<"F", "i", "l", "t", "e", "r">>

\* dict.get(key) on the entries of a PdfDict: the first entry whose key has
\* the text
TypesDictGet(items, k) == items[CHOOSE i \in 1..Len(items) :
                                   items[i][1] = k /\ \A x \in 1..(i - 1) : items[x][1] # k][2]

\* stream_dict.get('Filter', []), a single name in a list of its own
StreamFilters(items) ==
    IF ~DictHas(items, S_Filter) THEN <<>>
    ELSE IF TypesDictGet(items, S_Filter).t = "name" THEN <<TypesDictGet(items, S_Filter)>>
    ELSE TypesDictGet(items, S_Filter).v

\* a sequence back to front
Reversed(s) == [k \in 1..Len(s) |-> s[Len(s) + 1 - k]]

\* PdfStream.__bytes__, one filter of its loop.  The contents of the model
\* are operators and never an image file, which Image.open refuses
EncodeFilter(f, contents) ==
    IF f.t # "name" THEN FR("PdfParseError", <<>>)
    ELSE IF f.v = F_ASCII85Decode
    THEN FR("", SubSeq(A85Encode(contents), 3, Len(A85Encode(contents))))
    ELSE IF f.v = F_FlateDecode THEN FR("", ZlibCompress(contents))
    ELSE IF f.v = F_DCTDecode THEN FR("UnidentifiedImageError", <<>>)
    ELSE IF f.v = F_ASCIIHexDecode THEN FR("", BytesHex(contents))
    ELSE FR("PdfParseError", <<>>)

\* PdfStream.parse, one filter of its loop
DecodeFilter(f, contents) ==
    IF f.t # "name" THEN FR("PdfParseError", <<>>)
    ELSE IF f.v = F_ASCII85Decode THEN A85Decode(contents)
    ELSE IF f.v = F_FlateDecode THEN ZlibDecompress(contents)
    ELSE IF f.v = F_DCTDecode THEN FR("UnidentifiedImageError", <<>>)
    ELSE IF f.v = F_ASCIIHexDecode THEN BytesFromHex(contents)
    ELSE FR("PdfParseError", <<>>)

\* the filters fs applied one after the other with Step, the first
\* exception ends the loop
RECURSIVE FilterLoop(_, _, _)
FilterLoop(Step(_, _), fs, r) ==
    IF r.err # "" \/ fs = <<>> THEN r
    ELSE FilterLoop(Step, Tail(fs), Step(Head(fs), r.bytes))

RECURSIVE TypesBytes(_)
\* PdfArray.__bytes__
PdfArrayBytes(items) ==
    Bind([k \in 1..Len(items) |-> TypesBytes(items[k])], LAMBDA contents :
        IF \E k \in 1..Len(contents) : contents[k].err # "" THEN JoinBytes(contents, <<>>)
        ELSE IF Len(contents) = 1 /\ "\n" \notin {contents[1].bytes[i] : i \in 1..Len(contents[1].bytes)}
        THEN FR("", <<"[", " ">> \o contents[1].bytes \o <<" ", "]">>)
        ELSE JoinBytes(<<FR("", <<"[">>)>> \o Indented(contents) \o <<FR("", <<"]">>)>>, <<"\n">>))

\* PdfDict.__bytes__: the keys of the model's dictionaries are names
PdfDictBytes(items) ==
    JoinBytes(<<FR("", <<"<", "<">>)>>
              \o Indented([k \in 1..Len(items) |->
                              JoinBytes(<<PdfNameBytes(items[k][1]), TypesBytes(items[k][2])>>,
                                        <<" ">>)])
              \o <<FR("", <<">", ">">>)>>, <<"\n">>)

\* bytes(v) for a name, a number, a string, an array or a dictionary
TypesBytes(v) ==
    IF v.t = "name" THEN PdfNameBytes(v.v)
    ELSE IF v.t = "int" THEN PdfIntegerBytes(v)
    ELSE IF v.t = "real" THEN PdfRealBytes(v)
    ELSE IF v.t = "str" THEN PdfLiteralStringBytes(v)
    ELSE IF v.t = "arr" THEN PdfArrayBytes(v.v)
    ELSE IF v.t = "dict" THEN PdfDictBytes(v.v)
    ELSE IF v.t = "bool" THEN FR("", IF v.v THEN <<"t", "r", "u", "e">> ELSE <<"f", "a", "l", "s", "e">>)
    ELSE FR("", <<"n", "u", "l", "l">>)

\* PdfStream.__bytes__ for a stream with the dictionary entries items and
\* the operators contents.  The key of the Length it sets is a new PdfName,
\* equal to no PdfName the dictionary holds: the entry comes after them
PdfStreamBytes(items, contents) ==
    Bind(ContentsBytes(contents), LAMBDA joined :
    Bind(IF DictHas(items, S_Filter) /\ TypesDictGet(items, S_Filter).t \notin {"name", "arr"}
         THEN FR("TypeError", <<>>)
         ELSE FilterLoop(EncodeFilter, Reversed(StreamFilters(items)), joined), LAMBDA coded :
        IF joined.err # "" THEN joined
        ELSE IF coded.err # "" THEN coded
        ELSE JoinBytes(<<PdfDictBytes(Append(items, <<S_Length, VInt(Len(coded.bytes))>>)),
                         FR("", K_stream), coded, FR("", K_endstream)>>, <<"\n">>)))

\* the fields of the dataclass PdfStream
PdfStreamFields == {"stream_dict", "contents"}

\* PdfStream.parse as parse_pdf_object calls it, with the cursor at pos
\* after the stream line and d the dictionary read: its first statement
\* reads the attribute skip_stream_dict of the stream
TypesStreamParse(b, pos, d) ==
    Bind(IF DictHas(d.v, S_Length) /\ TypesDictGet(d.v, S_Length).t = "int"
         THEN TypesDictGet(d.v, S_Length).v ELSE 0, LAMBDA stream_length :
    Bind(Min(pos + stream_length, Len(b)), LAMBDA end :
    Bind(IF DictHas(d.v, S_Filter) /\ TypesDictGet(d.v, S_Filter).t \notin {"name", "arr"}
         THEN FR("TypeError", <<>>)
         ELSE FilterLoop(DecodeFilter, StreamFilters(d.v), FR("", SubSeq(b, pos + 1, end))),
         LAMBDA decoded :
    Bind(ParseOps(decoded.bytes), LAMBDA ops :
    Bind(ReadPdfTokens(b, end), LAMBDA t :
        IF "skip_stream_dict" \notin PdfStreamFields THEN PR("AttributeError", pos, VNone)
        ELSE IF ~DictHas(d.v, S_Length) THEN PR("KeyError", pos, VNone)
        ELSE IF TypesDictGet(d.v, S_Length).t \notin {"int", "real"} THEN PR("TypeError", pos, VNone)
        ELSE IF decoded.err # "" THEN PR(decoded.err, end, VNone)
        ELSE IF ops.err # "" THEN PR(ops.err, end, VNone)
        ELSE IF t.stop THEN PR("StopIteration", t.pos, VNone)
        ELSE IF t.tok # K_endstream THEN PR("PdfParseError", t.pos, VNone)
        ELSE PR("", t.pos, VStream(d.v, ops.val)))))))

-----------------------------------------------------------------------------
(* The objects SpecTypes formats and parses *)

\* the name atoms the model formats and parses back: bytes that a name may
\* hold as they are, and bytes that have to be escaped
NameAlphabet == {"A", "1", " ", "#", "/", "(", "x00", "x7F"}

\* every sequence over S of length lo..hi
Words(S, lo, hi) == UNION {[1..n -> S] : n \in lo..hi}

NameAtoms == Words(NameAlphabet, 1, MaxNameLen)

\* a dictionary with a Length of n and the stream line after it, as
\* tests/test_pdf.py writes them
StreamHead(n) ==
    <<"<", "<", "\n", " ", " ", "/">> \o S_Length \o <<" ">> \o Str(n)
        \o <<"\n", ">", ">", "\n">> \o K_stream \o <<"\n">>

\* the inputs of parse_pdf_object: containers the input ends in, hex strings
\* with a character that is no hex digit, closed objects, and streams of
\* the operator q with and without the endstream line
ObjectInputs ==
    {[case |-> "literal", bytes |-> <<"(">> \o s] : s \in Words({"a", " "}, 0, MaxBodyLen)}
    \cup {[case |-> "hex", bytes |-> <<"<">> \o s] : s \in Words({"4", " "}, 0, MaxBodyLen)}
    \cup {[case |-> "array", bytes |-> <<"[">> \o s] : s \in Words({"1", " ", "/"}, 0, MaxBodyLen)}
    \cup {[case |-> "dict", bytes |-> <<"<", "<">> \o s] : s \in Words({"1", " ", "/"}, 0, MaxBodyLen)}
    \cup {[case |-> "badhex", bytes |-> <<"<">> \o s \o <<">">>] :
             s \in {w \in Words({"4", "G"}, 1, MaxBodyLen) : \E i \in 1..Len(w) : w[i] = "G"}}
    \cup {[case |-> "closed", bytes |-> s] :
             s \in {<<"(", "a", ")">>, <<"<", "4", "1", ">">>, <<"[", "1", " ", "]">>,
                    <<"<", "<", "/", "A", " ", "1", ">", ">">>}}
    \cup {[case |-> "stream", bytes |-> StreamHead(1 + Len(pre)) \o pre \o <<"q", "\n">> \o K_endstream] :
             pre \in {<<>>, <<" ", " ">>}}
    \cup {[case |-> "stream open", bytes |-> StreamHead(1) \o <<"q", "\n">> \o tail] :
             tail \in {<<>>, <<"e", "n", "d">>, K_endobj}}

\* an operand that is a Python int
N(n) == VInt(n)

\* the operators of a content stream a caller builds: every class of the
\* graphics state, text objects, path objects, and Do
StateSamples ==
    <<Op("q", <<>>, <<>>), Op("Q", <<>>, <<>>),
     Op("cm", <<N(1), N(0), N(0), N(1), N(5), N(7)>>, <<>>),
     Op("w", <<N(2)>>, <<>>), Op("J", <<N(1)>>, <<>>), Op("j", <<N(1)>>, <<>>),
     Op("M", <<N(3)>>, <<>>), Op("d", <<VArr(<<N(3)>>), N(0)>>, <<>>),
     Op("ri", <<VStr(<<"P">>)>>, <<>>), Op("i", <<N(50)>>, <<>>),
     Op("gs", <<VStr(<<"G", "S", "1">>)>>, <<>>)>>

TextSamples ==
    <<Op("BT", <<>>, <<>>),
     Op("BT", <<>>, <<Op("Tf", <<VStr(<<"F", "1">>), N(12)>>, <<>>),
                      Op("Tj", <<VStr(<<"H", "i">>)>>, <<>>)>>),
     Op("BT", <<>>, <<Op("Tf", <<VStr(<<"F", "1">>), N(12)>>, <<>>),
                      Op("TL", <<N(14)>>, <<>>), Op("T*", <<>>, <<>>)>>),
     Op("BT", <<>>, <<Op("Tm", <<N(1), N(0), N(0), N(1), N(5), N(7)>>, <<>>),
                      Op("Tc", <<N(1)>>, <<>>), Op("Tw", <<N(1)>>, <<>>),
                      Op("Tz", <<N(1)>>, <<>>), Op("Ts", <<N(1)>>, <<>>)>>),
     Op("BT", <<>>, <<Op("Tr", <<N(0)>>, <<>>)>>)>>

PathSamples ==
    <<Op("path", <<>>, <<Op("m", <<N(0), N(0)>>, <<>>), Op("S", <<>>, <<>>)>>),
     Op("path", <<>>, <<Op("m", <<N(0), N(0)>>, <<>>), Op("l", <<N(9), N(9)>>, <<>>),
                        Op("S", <<>>, <<>>)>>),
     Op("path", <<>>, <<Op("re", <<N(0), N(0), N(5), N(5)>>, <<>>), Op("f", <<>>, <<>>)>>),
     Op("path", <<>>, <<Op("m", <<N(0), N(0)>>, <<>>),
                        Op("c", <<N(1), N(2), N(3), N(4), N(5), N(6)>>, <<>>),
                        Op("v", <<N(1), N(2), N(3), N(4)>>, <<>>),
                        Op("y", <<N(1), N(2), N(3), N(4)>>, <<>>),
                        Op("h", <<>>, <<>>),
                        Op("clip", <<>>, <<Op("W", <<>>, <<>>), Op("n", <<>>, <<>>)>>)>>)>>

XObjectSamples == <<Op("Do", <<VName(<<"I", "m", "1">>)>>, <<>>)>>

SampleOperators == StateSamples \o TextSamples \o PathSamples \o XObjectSamples

\* the operators longer content streams are made of: q, Q, w and a text
\* object, by their place in SampleOperators
CoreOperators == {1, 2, 4, 14}

\* the content streams formatted and parsed back, each the places of its
\* operators in SampleOperators
ContentStreams ==
    Words(1..Len(SampleOperators), 0, 1) \cup Words(CoreOperators, 2, MaxOps)

\* the operators of a content stream
Contents(cs) == [k \in 1..Len(cs) |-> SampleOperators[cs[k]]]

\* n operands, as bytes
RECURSIVE Operands(_)
Operands(n) == IF n = 0 THEN <<>> ELSE <<"1", " ">> \o Operands(n - 1)

\* the contents parsed as they are given.  unknown: a token that is no
\* operator and no value, after operands, at top level and in a text object.
\* arity: every token the parser knows with a number of operands that is
\* not its arity, at top level, in a text object and in a path object.
\* leftover: operands with no operator after them
ContentsInputs ==
    {[case |-> "unknown", bytes |-> Operands(n) \o tok] :
        n \in 0..MaxOperands, tok \in {<<"x", "x">>, <<"B", "I">>}}
    \cup {[case |-> "unknown", bytes |-> <<"q", " ">> \o Operands(n) \o <<"x", "x", " ", "Q">>] :
             n \in 0..MaxOperands}
    \cup {[case |-> "unknown", bytes |-> <<"B", "T", " ">> \o Operands(n) \o <<"x", "x", " ", "E", "T">>] :
             n \in 0..MaxOperands}
    \cup {[case |-> "arity", bytes |-> Operands(c[2]) \o Token[c[1]]] :
             c \in {x \in {"q", "Q", "cm", "w", "J", "j", "M", "d", "ri", "i", "gs"}
                            \X (0..MaxOperands) : x[2] # Arity(x[1])}}
    \cup {[case |-> "arity", bytes |-> Operands(n) \o <<"D", "o">>] :
             n \in (0..MaxOperands) \ {1}}
    \cup {[case |-> "arity", bytes |-> Operands(c[2]) \o Token[c[1]] \o <<" ", "h", " ", "n">>] :
             c \in {x \in {"m", "re"} \X (0..MaxOperands) : x[2] # Arity(x[1])}}
    \cup {[case |-> "arity", bytes |-> <<"B", "T", " ">> \o Operands(c[2]) \o Token[c[1]] \o <<" ", "E", "T">>] :
             c \in {x \in (DOMAIN TextOperations) \X (0..MaxOperands) : x[2] # Arity(x[1])}}
    \cup {[case |-> "arity", bytes |-> <<"0", " ", "0", " ", "m", " ">> \o Operands(c[2]) \o Token[c[1]] \o <<" ", "S">>] :
             c \in {x \in {"l", "c", "v", "h"} \X (0..MaxOperands) : x[2] # Arity(x[1])}}
    \cup {[case |-> "arity", bytes |-> <<"0", " ", "0", " ", "m", " ">> \o Operands(c[2]) \o Token[c[1]]] :
             c \in {x \in (DOMAIN PathPaintOperations) \X (1..MaxOperands) : TRUE}}
    \cup {[case |-> "leftover", bytes |-> pre \o Operands(n)] :
             pre \in {<<>>, <<"q", " ">>}, n \in 1..MaxOperands}
    \cup {[case |-> "leftover", bytes |-> pre \o <<"/", "F", "1">>] :
             pre \in {<<>>, <<"q", " ">>}}

\* an object of types.py under work: the name atom or bytes given, the
\* content stream given, how far the work on it has gone, and what the
\* parser made of it
Work(kind, case, value, contents) ==
    [kind |-> kind, case |-> case, value |-> value, contents |-> contents,
     filters |-> <<>>, phase |-> "given", out |-> <<>>]

\* the filters a caller names, by their place here: the three the code
\* encodes without an image library, and LZWDecode, which it does not know
FilterSamples ==
    <<F_ASCII85Decode, F_FlateDecode, F_ASCIIHexDecode,
      <<"L", "Z", "W", "D", "e", "c", "o", "d", "e">>>>

SupportedFilters == {1, 2, 3}

\* the streams a caller builds: contents of SampleOperators, and a
\* dictionary with no Filter, with a single name, or with an array of names
StreamInputs ==
    {[case |-> c[1], filters |-> c[2], contents |-> cs] :
        c \in ({"none"} \X {<<>>})
                \cup ({"name"} \X Words(1..Len(FilterSamples), 1, 1))
                \cup ({"array"} \X Words(1..Len(FilterSamples), 0, MaxFilters)),
        cs \in {<<>>, <<1>>, <<1, 2>>, <<4, 14>>}}

\* the stream_dict of a stream under work
StreamDict(w) ==
    IF w.case = "none" THEN <<>>
    ELSE IF w.case = "name" THEN <<<<S_Filter, VName(FilterSamples[w.filters[1]])>>>>
    ELSE <<<<S_Filter, VArr([k \in 1..Len(w.filters) |-> VName(FilterSamples[w.filters[k]])])>>>>

TypesInit ==
    /\ pdf = NewPdfFile(DefaultVersion)
    /\ buf = <<>>
    /\ err = ""
    /\ last = Call("new", 0, NoneName, 0, <<>>)
    /\ snap \in {Work("name", "", a, <<>>) : a \in NameAtoms}
                \cup {Work("object", i.case, i.bytes, <<>>) : i \in ObjectInputs}
                \cup {Work("contents", "", <<>>, cs) : cs \in ContentStreams}
                \cup {Work("contents bytes", i.case, i.bytes, <<>>) : i \in ContentsInputs}
                \cup {[Work("stream", i.case, <<>>, i.contents) EXCEPT !.filters = i.filters] :
                         i \in StreamInputs}

\* bytes(PdfName(value))
FormatName ==
    /\ snap.kind = "name"
    /\ snap.phase = "given"
    /\ LET r == PdfNameBytes(snap.value)
       IN  /\ buf' = r.bytes
           /\ err' = r.err
           /\ snap' = [snap EXCEPT !.phase = "formatted"]
    /\ last' = Call("bytes", 0, NoneName, 0, <<>>)
    /\ UNCHANGED pdf

\* parse_pdf_object(io.BytesIO(b)) for the bytes of a formatted name or
\* stream, or the bytes given
ParsePdfObject ==
    /\ \/ snap.kind \in {"name", "stream"} /\ snap.phase = "formatted" /\ err = ""
       \/ snap.kind = "object" /\ snap.phase = "given"
    /\ LET b == IF snap.kind \in {"name", "stream"} THEN buf ELSE snap.value
           o == TypesParseObject(b, 0)
       IN  /\ buf' = b
           /\ err' = o.err
           /\ snap' = [snap EXCEPT !.phase = "parsed",
                                   !.out = IF o.err = "" THEN <<o.val>> ELSE <<>>]
    /\ last' = Call("parse_pdf_object", 0, NoneName, 0, <<>>)
    /\ UNCHANGED pdf

\* b'\n'.join(map(bytes, contents)), the contents as PdfStream.__bytes__
\* writes them
FormatContents ==
    /\ snap.kind = "contents"
    /\ snap.phase = "given"
    /\ LET r == ContentsBytes(Contents(snap.contents))
       IN  /\ buf' = r.bytes
           /\ err' = r.err
           /\ snap' = [snap EXCEPT !.phase = "formatted"]
    /\ last' = Call("bytes", 0, NoneName, 0, <<>>)
    /\ UNCHANGED pdf

\* the loop of PdfStream.parse over a buffer of contents: the bytes of
\* formatted contents or the bytes given
ParseContents ==
    /\ \/ snap.kind = "contents" /\ snap.phase = "formatted" /\ err = ""
       \/ snap.kind = "contents bytes" /\ snap.phase = "given"
    /\ LET b == IF snap.kind = "contents" THEN buf ELSE snap.value
           o == ParseOps(b)
       IN  /\ buf' = b
           /\ err' = o.err
           /\ snap' = [snap EXCEPT !.phase = "parsed",
                                   !.out = IF o.err = "" THEN o.val ELSE <<>>]
    /\ last' = Call("_parse_stream_object", 0, NoneName, 0, <<>>)
    /\ UNCHANGED pdf

\* bytes(PdfStream(stream_dict=..., contents=...))
FormatStream ==
    /\ snap.kind = "stream"
    /\ snap.phase = "given"
    /\ LET r == PdfStreamBytes(StreamDict(snap), Contents(snap.contents))
       IN  /\ buf' = r.bytes
           /\ err' = r.err
           /\ snap' = [snap EXCEPT !.phase = "formatted"]
    /\ last' = Call("bytes", 0, NoneName, 0, <<>>)
    /\ UNCHANGED pdf

TypesNext ==
    \/ FormatName
    \/ FormatStream
    \/ ParsePdfObject
    \/ FormatContents
    \/ ParseContents

SpecTypes == TypesInit /\ [][TypesNext]_vars

-----------------------------------------------------------------------------
(* BaseObject.clone of src/pdfalcon/types.py *)

\* PdfIndirectObject.__init__ of types.py: next_free_object is the place of
\* an object in the heap, 0 for None; ref is None until attach makes the
\* PdfIndirectObjectRef
TypesNewIndirectObject ==
    [object_number |-> NoneVal, generation_number |-> NoneVal,
     attached |-> FALSE, free |-> FALSE, next_free_object |-> 0,
     ref |-> VNone, contents |-> VNone, pdf_section |-> 0]

\* PdfIndirectObject.attach of types.py
TypesAttach(o, n, g, section, c) ==
    [o EXCEPT !.object_number = n, !.generation_number = g, !.attached = TRUE,
              !.ref = VRef(n, g), !.pdf_section = section, !.contents = c]

\* PdfIndirectObject.release of types.py
TypesRelease(o, next) == [o EXCEPT !.next_free_object = next, !.free = TRUE]

\* the classes whose __init__ has a parameter without a default, by the tag
\* of their values and the name of their operator: PdfIndirectObjectRef,
\* LineWidthOperation and LineCapStyleOperation
InitNeedsArguments == {"ref", "w", "J"}

\* what clone gives: the exception raised, the copy
CR(e, val) == [err |-> e, val |-> val]

RECURSIVE CloneValue(_)
\* [cls._clone_obj(x) for x in obj]: the first exception ends it
CloneList(vs) ==
    Bind([k \in 1..Len(vs) |-> CloneValue(vs[k])], LAMBDA rs :
        IF \E k \in 1..Len(rs) : rs[k].err # ""
        THEN CR(rs[CHOOSE k \in 1..Len(rs) :
                       rs[k].err # "" /\ \A x \in 1..(k - 1) : rs[x].err = ""].err, <<>>)
        ELSE CR("", [k \in 1..Len(rs) |-> rs[k].val]))

\* BaseObject._clone_obj for a value that is no PdfIndirectObject: a plain
\* Python value is handed back, an object is made anew with
\* self.__class__() and gets the copies of its attributes
CloneValue(v) ==
    IF "op" \in DOMAIN v
    THEN Bind(CloneList(v.args), LAMBDA args :
         Bind(CloneList(v.ops), LAMBDA ops :
             IF v.op \in InitNeedsArguments THEN CR("TypeError", VNone)
             ELSE IF args.err # "" THEN args
             ELSE IF ops.err # "" THEN ops
             ELSE CR("", [v EXCEPT !.args = args.val, !.ops = ops.val])))
    ELSE IF v.t \in InitNeedsArguments THEN CR("TypeError", VNone)
    ELSE IF v.t = "arr"
    THEN Bind(CloneList(v.v), LAMBDA items :
             IF items.err # "" THEN items ELSE CR("", VArr(items.val)))
    ELSE IF v.t = "dict"
    THEN Bind(CloneList([k \in 1..Len(v.v) |-> v.v[k][2]]), LAMBDA values :
             IF values.err # "" THEN values
             ELSE CR("", VDict([k \in 1..Len(v.v) |-> <<v.v[k][1], values.val[k]>>])))
    ELSE IF v.t = "stream"
    THEN Bind(CloneValue(VDict(v.d)), LAMBDA d :
         Bind(CloneList(v.ops), LAMBDA ops :
             IF d.err # "" THEN d
             ELSE IF ops.err # "" THEN ops
             ELSE CR("", VStream(d.val.v, ops.val))))
    ELSE CR("", v)

\* what clone of a PdfIndirectObject gives: the exception raised, the heap
\* with the copies, and the place of the copy
CH(e, heap, id) == [err |-> e, heap |-> heap, id |-> id]

\* BaseObject.clone for the PdfIndirectObject at id.  path holds the
\* objects whose clone is running: clone keeps no record of the objects it
\* has copied, so it goes into an object of path again as it did before,
\* and again, until the interpreter raises RecursionError.  The attributes
\* are copied in the order __init__ sets them: next_free_object before ref
\* and contents
RECURSIVE CloneIndirect(_, _, _)
CloneIndirect(heap, id, path) ==
    IF id \in path THEN CH("RecursionError", heap, 0)
    ELSE Bind(heap[id], LAMBDA o :
         Bind(IF o.next_free_object = 0 THEN CH("", heap, 0)
              ELSE CloneIndirect(heap, o.next_free_object, path \cup {id}), LAMBDA next :
         Bind(CloneValue(o.ref), LAMBDA ref :
         Bind(CloneValue(o.contents), LAMBDA contents :
             IF next.err # "" THEN CH(next.err, heap, 0)
             ELSE IF ref.err # "" THEN CH(ref.err, heap, 0)
             ELSE IF contents.err # "" THEN CH(contents.err, heap, 0)
             ELSE CH("", Append(next.heap, [o EXCEPT !.next_free_object = next.id,
                                                     !.ref = ref.val,
                                                     !.contents = contents.val]),
                     Len(next.heap) + 1)))))

\* the contents objects are attached with: a name, a dictionary that holds
\* a reference, a stream of the operator q and a stream of the operator w
CloneContents ==
    <<VName(<<"A">>), VDict(<<<<S_Root, VRef(1, 0)>>>>),
      VStream(<<>>, <<Op("q", <<>>, <<>>)>>),
      VStream(<<>>, <<Op("w", <<VInt(2)>>, <<>>)>>)>>

\* no object yet
CloneInit ==
    /\ pdf = [objects |-> <<>>]
    /\ buf = <<>>
    /\ err = ""
    /\ last = Call("new", 0, NoneName, 0, <<>>)
    /\ snap = [phase |-> "build", objects |-> <<>>, out |-> <<>>]

\* PdfIndirectObject()
NewObject ==
    /\ snap.phase = "build"
    /\ Len(pdf.objects) < MaxCloneObjects
    /\ pdf' = [pdf EXCEPT !.objects = Append(@, TypesNewIndirectObject)]
    /\ err' = ""
    /\ last' = Call("PdfIndirectObject", Len(pdf.objects) + 1, NoneName, 0, <<>>)
    /\ UNCHANGED <<buf, snap>>

\* obj.attach(object_number, 0, None, contents)
AttachObject ==
    /\ snap.phase = "build"
    /\ \E i \in 1..Len(pdf.objects), k \in 1..Len(CloneContents) :
         /\ ~pdf.objects[i].attached
         /\ pdf' = [pdf EXCEPT !.objects[i] = TypesAttach(@, i - 1, 0, 0, CloneContents[k])]
         /\ last' = Call("attach", i, NoneName, 0, <<>>)
    /\ err' = ""
    /\ UNCHANGED <<buf, snap>>

\* obj.release(next_free_object)
ReleaseTo ==
    /\ snap.phase = "build"
    /\ \E i \in 1..Len(pdf.objects), j \in 1..Len(pdf.objects) :
         /\ ~pdf.objects[i].free
         /\ pdf' = [pdf EXCEPT !.objects[i] = TypesRelease(@, j)]
         /\ last' = Call("release", i, NoneName, j, <<>>)
    /\ err' = ""
    /\ UNCHANGED <<buf, snap>>

\* obj.clone() for a PdfIndirectObject
CloneObject ==
    /\ snap.phase = "build"
    /\ \E i \in 1..Len(pdf.objects) :
         LET r == CloneIndirect(pdf.objects, i, {})
         IN  /\ pdf' = [pdf EXCEPT !.objects = r.heap]
             /\ err' = r.err
             /\ last' = Call("clone", i, NoneName, r.id, <<>>)
    /\ snap' = [snap EXCEPT !.phase = "cloned", !.objects = pdf.objects]
    /\ UNCHANGED buf

\* obj.contents.clone() for the contents of an attached object
CloneContentsOf ==
    /\ snap.phase = "build"
    /\ \E i \in 1..Len(pdf.objects) :
         /\ pdf.objects[i].attached
         /\ LET r == CloneValue(pdf.objects[i].contents)
            IN  /\ err' = r.err
                /\ snap' = [snap EXCEPT !.phase = "cloned", !.objects = pdf.objects,
                                        !.out = IF r.err = "" THEN <<r.val>> ELSE <<>>]
         /\ last' = Call("clone contents", i, NoneName, 0, <<>>)
    /\ UNCHANGED <<pdf, buf>>

CloneNext ==
    \/ NewObject
    \/ AttachObject
    \/ ReleaseTo
    \/ CloneObject
    \/ CloneContentsOf

SpecClone == CloneInit /\ [][CloneNext]_vars

-----------------------------------------------------------------------------
(* The readers of src/pdfalcon/parsing.py and src/pdfalcon/pdf.py, block by block *)

\* bytes.splitlines(keepends=True): the lines of bs from index i on, each
\* with the "\n", "\r" or "\r\n" that ends it
RECURSIVE SplitLines(_, _)
SplitLines(bs, i) ==
    IF i > Len(bs) THEN <<>>
    ELSE Bind(FirstIn(bs, i, Len(bs), {"\n", "\r"}), LAMBDA e :
         Bind(IF e < Len(bs) /\ bs[e] = "\r" /\ bs[e + 1] = "\n" THEN e + 1
              ELSE Min(e, Len(bs)), LAMBDA end :
             <<SubSeq(bs, i, end)>> \o SplitLines(bs, end + 1)))

\* io.BytesIO.seek(-n, io.SEEK_CUR) from pos: the cursor does not go below 0
SeekBack(pos, n) == IF pos - n < 0 THEN 0 ELSE pos - n

\* a generator of parsing.py or a line generator that has not been advanced
\* yet.  cur is cur_token or line_remainder, at is cur_offset or
\* byte_offset, nbs is next_block_start, lo..hi are the bytes of the block
\* not gone through yet, lines the lines of the block not given yet, pend the
\* delimiter given next, back the length of the line given last
NewBlockReader ==
    [live |-> FALSE, done |-> FALSE, cur |-> <<>>, pend |-> "", at |-> 0, nbs |-> 0,
     lo |-> 1, hi |-> 0, lines |-> <<>>, back |-> 0]

\* what next() gives when the generator has returned
Stopped(pos, g) == [T(<<>>, pos, [g EXCEPT !.live = TRUE, !.done = TRUE], "") EXCEPT !.stop = TRUE]

TokenEndAtNext(at) == at

\* io_buffer.seek(cur_offset-1, io.SEEK_SET) before a token is given: at is
\* cur_offset, which counts the byte that ends the token
TokenEnd(at) == at - 1

\* next(tokens, None) on a read_tokens generator of parsing.py with the
\* cursor at pos
RECURSIVE BlockTokens(_, _, _, _)
BlockTokens(b, pos, g, block_size) ==
    IF g.done THEN Stopped(pos, g)
    ELSE IF g.pend # "" THEN T(<<g.pend>>, g.at, [g EXCEPT !.pend = ""], "")
    ELSE IF ~g.live
    THEN BlockTokens(b, pos, [g EXCEPT !.live = TRUE, !.at = pos, !.nbs = pos], block_size)
    ELSE IF g.lo > g.hi
    THEN Bind(Min(block_size, Len(b) - g.nbs), LAMBDA n :
             IF n <= 0
             THEN (IF g.cur # <<>> THEN T(g.cur, g.at, [g EXCEPT !.done = TRUE], "")
                   ELSE Stopped(g.nbs, g))
             ELSE BlockTokens(b, pos, [g EXCEPT !.lo = g.nbs + 1, !.hi = g.nbs + n,
                                                !.nbs = g.nbs + n], block_size))
    ELSE Bind(b[g.lo], LAMBDA char :
         Bind(g.at + 1, LAMBDA at :
         Bind([g EXCEPT !.at = at, !.lo = g.lo + 1], LAMBDA g1 :
             IF char \in Delimiters
             THEN (IF g.cur # <<>>
                   THEN T(g.cur, TokenEnd(at), [g1 EXCEPT !.cur = <<>>, !.pend = char], "")
                   ELSE T(<<char>>, at, g1, ""))
             ELSE IF char \in WhitespaceChars
             THEN (IF g.cur # <<>> THEN T(g.cur, TokenEnd(at), [g1 EXCEPT !.cur = <<>>], "")
                   ELSE BlockTokens(b, pos, g1, block_size))
             ELSE BlockTokens(b, pos, [g1 EXCEPT !.cur = Append(@, char)], block_size))))

\* next(lines, None) on a read_lines generator with the cursor at pos: the
\* lines of a block are given one by one, each after a seek by its length;
\* when they run out the cursor moves by the length of line_remainder and
\* the next block is read there
RECURSIVE BlockLines(_, _, _, _)
BlockLines(b, pos, g, block_size) ==
    IF g.done THEN Stopped(pos, g)
    ELSE IF g.lines # <<>>
    THEN T(Strip(Head(g.lines)), pos + Len(Head(g.lines)), [g EXCEPT !.lines = Tail(@)], "")
    ELSE Bind(pos + Len(g.cur), LAMBDA from :
         Bind(Min(block_size, Len(b) - from), LAMBDA n :
             IF n <= 0
             THEN T(Strip(g.cur), from + Len(g.cur), [g EXCEPT !.live = TRUE, !.done = TRUE], "")
             ELSE Bind(SplitLines(SubSeq(b, from + 1, from + n), 1), LAMBDA ls :
                  Bind(IF g.cur # <<>> THEN [ls EXCEPT ![1] = g.cur \o @] ELSE ls, LAMBDA lines :
                      BlockLines(b, from,
                                 [g EXCEPT !.live = TRUE, !.cur = lines[Len(lines)],
                                           !.lines = SubSeq(lines, 1, Len(lines) - 1)],
                                 block_size)))))

\* next(lines, None) on a reverse_read_lines generator with the cursor at
\* pos: the cursor is after the block that was read when a line is given,
\* and moves back by the length of the line when the next one is asked for
RECURSIVE BlockReverseLines(_, _, _, _)
BlockReverseLines(b, pos, g, block_size) ==
    IF g.done THEN Stopped(pos, g)
    ELSE IF ~g.live
    THEN BlockReverseLines(b, pos, [g EXCEPT !.live = TRUE, !.at = pos], block_size)
    ELSE Bind(SeekBack(pos, g.back), LAMBDA p :
         Bind(SeekBack(p, Len(g.cur)), LAMBDA q :
         Bind(Min(g.at, block_size), LAMBDA read_size :
         Bind(g.at - read_size, LAMBDA byte_offset :
             IF g.lines # <<>>
             THEN T(Strip(Head(g.lines)), p,
                    [g EXCEPT !.lines = Tail(@), !.back = Len(Head(g.lines))], "")
             ELSE IF g.at <= 0 THEN T(Strip(g.cur), q, [g EXCEPT !.done = TRUE, !.back = 0], "")
             ELSE Bind(SplitLines(SubSeq(b, byte_offset + 1, Min(g.at, Len(b))), 1), LAMBDA ls :
                  Bind(IF g.cur # <<>> THEN [ls EXCEPT ![Len(ls)] = @ \o g.cur] ELSE ls, LAMBDA lines :
                      BlockReverseLines(b, g.at,
                                        [g EXCEPT !.at = byte_offset, !.cur = lines[1],
                                                  !.lines = Reversed(Tail(lines)), !.back = 0],
                                        block_size)))))))

\* FileSection.parse, the search for the trailer: the lines are read from
\* the end of the buffer until one is equal to kw, and one more is asked
\* for; what is left is the cursor, or PdfParseError if no line is equal
RECURSIVE ReverseScanTo(_, _, _, _, _)
ReverseScanTo(b, pos, g, block_size, kw) ==
    Bind(BlockReverseLines(b, pos, g, block_size), LAMBDA t :
        IF t.stop THEN PR("PdfParseError", t.pos, VNone)
        ELSE IF t.tok = kw
        THEN PR("", BlockReverseLines(b, t.pos, t.g, block_size).pos, VNone)
        ELSE ReverseScanTo(b, t.pos, t.g, block_size, kw))

\* FileSection.parse of the first section up to the trailer it parses, with
\* the block size of reverse_read_lines as a parameter
ParseLastTrailer(b, block_size) ==
    Bind(ReverseScanTo(b, Len(b), NewBlockReader, block_size, K_trailer), LAMBDA s :
        IF s.err # ""
        THEN PR(s.err, s.pos, [trailer_dict |-> VNone, crt_byte_offset |-> NoneVal])
        ELSE ParseTrailer(b, s.pos))

\* the bytes buffers are made of
TokenBytes == {"a", " ", "/"}
LineBytes == {"a", " ", "\n"}

\* the buffers of at most n bytes out of S
BuffersUpTo(S, n) == UNION {[1..k -> S] : k \in 0..n}

\* a file that ends in a trailer, startxref, 123 and the end-of-file marker
TrailerFile ==
    K_pdf \o <<"-", "1", ".", "4", "\n">> \o K_xref \o <<"\n">> \o K_trailer \o <<"\n", "<", "<", "\n", "/">> \o S_Size
    \o <<" ", "1", "\n", ">", ">", "\n">> \o K_startxref \o <<"\n", "1", "2", "3", "\n">> \o K_eof

\* the block sizes the readers are run with: the small ones, and the default
BlockSizes(default) == (1..MaxBlockSize) \cup {default}

\* the block sizes the trailer is searched with: blocks of a few lines, and
\* the default
TrailerBlockSizes == {4 * MaxBlockSize, 8 * MaxBlockSize, LineBlockSize}

\* the runs of the readers: the reader, the buffer, the cursor it starts at
\* and the block size
ReaderInputs ==
    {[reader |-> r, buffer |-> b, start |-> 0, block_size |-> n] :
        r \in {"parsing", "utils", "pdf"}, b \in BuffersUpTo(TokenBytes, MaxBufLen),
        n \in BlockSizes(TokenBlockSize)}
    \cup {[reader |-> "parsing", buffer |-> b, start |-> 1, block_size |-> n] :
             b \in BuffersUpTo(TokenBytes, MaxBufLen) \ {<<>>}, n \in BlockSizes(TokenBlockSize)}
    \cup {[reader |-> "lines", buffer |-> b, start |-> st, block_size |-> n] :
             b \in BuffersUpTo(LineBytes, MaxBufLen), st \in {0, 1}, n \in BlockSizes(LineBlockSize)}
    \cup {[reader |-> "reverse", buffer |-> b, start |-> Len(b), block_size |-> n] :
             b \in BuffersUpTo(LineBytes, MaxBufLen), n \in BlockSizes(LineBlockSize)}
    \cup {[reader |-> "trailer", buffer |-> TrailerFile, start |-> Len(TrailerFile), block_size |-> n] :
             n \in TrailerBlockSizes}

\* a buffer, its cursor, and a generator that has not been advanced
ReaderInit ==
    /\ pdf = [objects |-> <<>>]
    /\ \E i \in ReaderInputs :
         /\ i.start <= Len(i.buffer)
         /\ buf = i.buffer
         /\ snap = [reader |-> i.reader, block_size |-> i.block_size, start |-> i.start,
                    cursor |-> i.start, phase |-> "running", out |-> <<>>,
                    g |-> IF i.reader \in {"utils", "pdf"} THEN NewTokens ELSE NewBlockReader]
    /\ err = ""
    /\ last = Call("new", 0, NoneName, 0, <<>>)

\* the run after next() has given t: the value and the cursor are kept
Advance1(t) ==
    /\ snap' = [snap EXCEPT !.g = t.g, !.cursor = t.pos,
                            !.phase = IF t.err # "" THEN "error"
                                      ELSE IF t.stop THEN "end" ELSE "running",
                            !.out = IF t.err # "" \/ t.stop THEN @
                                    ELSE Append(@, [tok |-> t.tok, pos |-> t.pos])]
    /\ err' = t.err
    /\ last' = Call("next", 0, NoneName, t.pos, <<>>)
    /\ UNCHANGED <<pdf, buf>>

Asked(reader) == snap.reader = reader /\ snap.phase = "running" /\ Len(snap.out) < MaxYields

\* next(tokens, None), read_tokens of parsing.py
NextToken ==
    /\ Asked("parsing")
    /\ Advance1(BlockTokens(buf, snap.cursor, snap.g, snap.block_size))

\* next(tokens, None), read_tokens of utils.py
NextTokenUtils ==
    /\ Asked("utils")
    /\ Advance1(TokNextBlocks(buf, snap.cursor, snap.g, snap.block_size, TRUE))

\* next(tokens, None), read_tokens of pdf.py
NextTokenPdf ==
    /\ Asked("pdf")
    /\ Advance1(TokNextBlocks(buf, snap.cursor, snap.g, snap.block_size, FALSE))

\* next(lines, None), read_lines
NextLine ==
    /\ Asked("lines")
    /\ Advance1(BlockLines(buf, snap.cursor, snap.g, snap.block_size))

\* next(lines, None), reverse_read_lines
NextReverseLine ==
    /\ Asked("reverse")
    /\ Advance1(BlockReverseLines(buf, snap.cursor, snap.g, snap.block_size))

\* FileSection.parse on a buffer no section has been read from: the search
\* for the last trailer and the parse of it
FindTrailer ==
    /\ Asked("trailer")
    /\ LET r == ParseLastTrailer(buf, snap.block_size)
       IN  /\ snap' = [snap EXCEPT !.cursor = r.pos,
                                   !.phase = IF r.err # "" THEN "error" ELSE "end"]
           /\ err' = r.err
           /\ last' = Call("trailer", 0, NoneName, r.val.crt_byte_offset, <<>>)
    /\ UNCHANGED <<pdf, buf>>

ReaderNext ==
    \/ NextToken
    \/ NextTokenUtils
    \/ NextTokenPdf
    \/ NextLine
    \/ NextReverseLine
    \/ FindTrailer

SpecReaders == ReaderInit /\ [][ReaderNext]_vars

-----------------------------------------------------------------------------
(* Claims *)

\* C1: in the bytes write produces, for every section, the number printed
\* after startxref equals the byte offset, from the start of the file, of the
\* first byte of that section's xref keyword.
C1_StartxrefPointsAtXref ==
    \A s \in LinesEqual(buf, K_startxref) :
        NumberAt(buf, s + Len(K_startxref) + 1) = XrefBefore(buf, s) - 1

\* C2: in the bytes write produces, for every in-use xref entry (N, G) the
\* 10-digit offset is the byte position of the first byte of the line
\* "N G obj", whatever the length in bytes of the objects written before it.
C2_OffsetsPointAtObjects ==
    \A x \in LinesEqual(buf, K_xref) :
        LET es == XrefEntries(buf, x)
        IN  \A k \in 1..Len(es) :
                es[k].inuse =>
                    IsLineAt(buf, es[k].item + 1,
                             Str(es[k].n) \o <<" ">> \o Str(es[k].g) \o <<" ">> \o K_obj)

\* the parsed trailer of the last section written in b
LastTrailer(b) == ParseTrailer(b, LastLineEqual(b, K_trailer))

\* the pages of a document in the order of the tree's children, each with
\* the operator sequences of its content streams
PageStreams(d) ==
    [i \in 1..Len(d.tree.children) |->
        [k \in 1..Len(d.pages[d.tree.children[i]].objects) |->
            d.pages[d.tree.children[i]].objects[k].contents]]

\* C3: round trip.  For every document built by setup() followed by add_page
\* and add_text calls, reading the bytes that write produced yields a
\* document with the same version, the same number of xref entries and the
\* same trailer Size, a /Root that resolves to the catalog, a page tree with
\* the same Kids and Count, and for each page the same content streams with
\* the same operator sequences.
C3_RoundTrip ==
    (last.op = "read" /\ snap.read = snap.bytes) =>
        /\ err = ""
        /\ pdf.version = snap.pdf.version
        /\ Len(pdf.sections) = 1
        /\ Len(Entries(Sec(1))) = Len(Entries(snap.pdf.sections[1]))
        /\ Sec(1).size = snap.pdf.sections[1].size
        /\ pdf.catalog # 0
        /\ IsDictOfType(pdf.heap[pdf.catalog], S_Catalog)
        /\ pdf.cells[pdf.tree.kids] = snap.pdf.cells[snap.pdf.tree.kids]
        /\ pdf.cells[pdf.tree.count] = snap.pdf.cells[snap.pdf.tree.count]
        /\ PageStreams(pdf) = PageStreams(snap.pdf)

\* C4: after setup() and after every later add_page / add_font / add_text /
\* add_content_stream call, the trailer Size of the section equals the number
\* of entries of its xref subsection, the number of objects of its body and
\* 1 + the highest object number in use; it is 3 right after setup().
C4_SizeCountsObjects ==
    /\ \A i \in 1..Len(pdf.sections) :
          Sec(i).inited =>
             /\ Sec(i).size = Len(Entries(Sec(i)))
             /\ Sec(i).size = Cardinality(DOMAIN Sec(i).objects)
             /\ Sec(i).size = 1 + MaxKey(DOMAIN Sec(i).objects)[1]
    /\ (last.op = "setup" /\ err = "") => Sec(1).size = 3

C4_Witness ==
    /\ last.op = "add_text" /\ err = ""
    /\ Len(pdf.pages) = 2
    /\ Sec(1).size = 7

\* C5: after setup() and n calls of add_page(), the page-tree root's /Count
\* is n, /Kids holds exactly n references, the i-th being the reference of
\* the page the i-th call returned, and children is those pages in call order.
C5_KidsInCallOrder ==
    pdf.catalog # 0 =>
        LET n == Len(pdf.pages)
            root == pdf.heap[pdf.tree.pdf_object].contents.v
            kids == Resolve(pdf, DictGet(root, S_Kids)).v
            count == Resolve(pdf, DictGet(root, S_Count)).v
        IN  /\ count = n
            /\ Len(kids) = n
            /\ \A i \in 1..n : kids[i] = RefOf(pdf.heap[pdf.pages[i].pdf_object])
            /\ pdf.tree.children = [i \in 1..n |-> i]
            /\ (last.op = "add_page" /\ err = "") => last.ret = n

C5_Witness ==
    /\ last.op = "add_page" /\ err = ""
    /\ Len(pdf.pages) = 2
    /\ pdf.cells[pdf.tree.count].v = 2

\* C6: on a document with one page and no font yet, add_text adds exactly
\* two indirect objects (the Helvetica font and one content stream, 6 in
\* total); the stream holds q, cm, text object, Q; the text object holds
\* Tm, Tf, TL, Tj, T*; the page's /Font maps /F1 to the Helvetica font object.
C6_Post ==
    LET f == Len(pdf.heap) - 1
        c == Len(pdf.heap)
        ops == pdf.heap[c].contents.ops
    IN  /\ Len(pdf.heap) = 6
        /\ Sec(1).size = 6
        /\ IsDictOfType(pdf.heap[f], S_Font)
        /\ DictGet(pdf.heap[f].contents.v, S_BaseFont) = VName(S_Helvetica)
        /\ pdf.heap[c].contents.t = "stream"
        /\ Mnemonics(ops) = <<"q", "cm", "BT", "Q">>
        /\ Mnemonics(ops[3].ops) = <<"Tm", "Tf", "TL", "Tj", "T*">>
        /\ FontResources(pdf, 1) = << <<(<<"F", "1">>), RefOf(pdf.heap[f])>> >>
        /\ pdf.pages[1].objects = <<[pdf_object |-> c, contents |-> ops]>>

C6_AddTextOnFreshPage ==
    [][ ( /\ Len(pdf.pages) = 1
          /\ DOMAIN pdf.fonts = {}
          /\ Len(pdf.heap) = 4
          /\ last'.op = "add_text" /\ last'.name = NoneName /\ err' = "" )
        => ( Len(pdf.heap') = Len(pdf.heap) + 2 /\ C6_Post' ) ]_vars

C6_Witness ==
    /\ last.op = "add_text" /\ last.name = NoneName /\ err = ""
    /\ Len(pdf.pages) = 1
    /\ Len(pdf.heap) = 6
    /\ pdf.pages[1].font_number = 1

\* C7: for any sequence of add_font / add_text calls with the same font name,
\* exactly one Font object is created, and every alias these calls write into
\* a /Font resource dictionary references that Font object.
C7_AliasesReferenceTheFont ==
    /\ \A name \in DOMAIN pdf.fonts :
          Cardinality({i \in FontObjects(pdf) :
              DictGet(pdf.heap[i].contents.v, S_BaseFont) = VName(name)}) = 1
    /\ \A p \in Pages : \A k \in 1..Len(FontResources(pdf, p)) :
          \E i \in FontObjects(pdf) : FontResources(pdf, p)[k][2] = RefOf(pdf.heap[i])

\* the heap ids of the free objects of a body
FreeObjects(d, sec) ==
    {sec.objects[k] : k \in {x \in DOMAIN sec.objects : d.heap[sec.objects[x]].free}}

\* the object reached from id by following next_free_object n times
RECURSIVE Follow(_, _, _)
Follow(d, id, n) ==
    IF n = 0 \/ id = 0 THEN id ELSE Follow(d, d.heap[id].next_free_object, n - 1)

\* C8: in every reachable state of a section body, the zeroth object has key
\* (0, 65535) and is free, and starting at it and following next_free_object
\* exactly K times, K the number of free objects of the body, visits every
\* free object once and returns to the zeroth object.
C8_FreeListClosed ==
    \A i \in 1..Len(pdf.sections) :
        Sec(i).inited =>
            LET z == Sec(i).zeroth_object
                free == FreeObjects(pdf, Sec(i))
                K == Cardinality(free)
            IN  /\ KeyOf(pdf.heap[z]) = <<0, ZerothGeneration>>
                /\ pdf.heap[z].free
                /\ {Follow(pdf, z, n) : n \in 0..(K - 1)} = free
                /\ Follow(pdf, z, K) = z

\* C9: after add_update() every later mutation succeeds and attaches the
\* objects it creates to the new section, the last element of pdf.sections.
C9_MutationsAfterUpdateSucceed ==
    (Len(pdf.sections) >= 2 /\ last.op \in Mutations) =>
        /\ err = ""
        /\ last.ret # 0 => KeyOf(pdf.heap[last.ret]) \in DOMAIN Sec(Len(pdf.sections)).objects

\* sequence p is a prefix of sequence b
IsPrefix(p, b) == Len(p) <= Len(b) /\ SubSeq(b, 1, Len(p)) = p

\* C10: incremental update.  When document A is written, parsed into B, and
\* B is extended by add_update() and add_page() and written again, the new
\* bytes start with exactly the bytes of A's original section, and the second
\* section's trailer carries /Prev equal to the startxref value of A's section.
C10_IncrementalUpdate ==
    [][(/\ snap.phase = "parsed"
        /\ Len(pdf.sections) = 2
        /\ last.op = "add_page"
        /\ last'.op = "write")
       => (/\ err' = ""
           /\ IsPrefix(snap.bytes, buf')
           /\ Len(buf') > Len(snap.bytes)
           /\ DictHas(LastTrailer(buf').val.trailer_dict.v, S_Prev)
           /\ DictGet(LastTrailer(buf').val.trailer_dict.v, S_Prev)
                  = VInt(snap.pdf.sections[1].crt_byte_offset))]_vars

\* the file b is sound: every startxref names the byte offset of its xref
\* keyword, every in-use entry the byte offset of its object, and the /Root of
\* the last trailer is an object some table lists as in use
Sound(b) ==
    /\ LinesEqual(b, K_startxref) # {}
    /\ \A s \in LinesEqual(b, K_startxref) :
           /\ \E x \in LinesEqual(b, K_xref) : x < s
           /\ NumberAt(b, s + Len(K_startxref) + 1) = XrefBefore(b, s) - 1
    /\ \A x \in LinesEqual(b, K_xref) :
           \A k \in 1..Len(XrefEntries(b, x)) :
               XrefEntries(b, x)[k].inuse =>
                   IsLineAt(b, XrefEntries(b, x)[k].item + 1,
                            Str(XrefEntries(b, x)[k].n) \o <<" ">>
                            \o Str(XrefEntries(b, x)[k].g) \o <<" ">> \o K_obj)
    /\ LastTrailer(b).err = ""
    /\ DictHas(LastTrailer(b).val.trailer_dict.v, S_Root)
    /\ \E x \in LinesEqual(b, K_xref) :
           \E k \in 1..Len(XrefEntries(b, x)) :
               /\ XrefEntries(b, x)[k].inuse
               /\ VRef(XrefEntries(b, x)[k].n, XrefEntries(b, x)[k].g)
                      = DictGet(LastTrailer(b).val.trailer_dict.v, S_Root)

\* C11: after parsing a file with n >= 1 sections, pdf.sections holds the n
\* sections oldest first: the first has no /Prev, the /Prev of every later one
\* is the xref byte offset of the one before it, and the catalog is the
\* object the /Root of the last section's trailer names.
C11_SectionsOldestFirst ==
    (last.op = "read" /\ Sound(snap.read)) =>
        /\ err = ""
        /\ Len(pdf.sections) = Cardinality(LinesEqual(snap.read, K_startxref))
        /\ ~DictHas(Sec(1).trailer_dict.v, S_Prev)
        /\ \A i \in 2..Len(pdf.sections) :
               /\ DictHas(Sec(i).trailer_dict.v, S_Prev)
               /\ DictGet(Sec(i).trailer_dict.v, S_Prev) = VInt(Sec(i - 1).crt_byte_offset)
        /\ LET root == DictGet(Sec(Len(pdf.sections)).trailer_dict.v, S_Root)
           IN  /\ <<root.n, root.g>> \in DOMAIN pdf.object_store
               /\ pdf.catalog = pdf.object_store[<<root.n, root.g>>]

\* the entries the cross-reference tables of file b list, each with the
\* index of the xref keyword of its table
Listed(b) ==
    UNION {{[x |-> x, e |-> XrefEntries(b, x)[k]] : k \in 1..Len(XrefEntries(b, x))} :
           x \in LinesEqual(b, K_xref)}

\* C12: after parsing a file, object_store maps every key some section's
\* table lists as in use to the object parsed from the most recent section
\* that lists it (it is written as that object is), and holds no key that is
\* listed only as free.
C12_StoreHoldsLatest ==
    (last.op = "read" /\ Sound(snap.read)) =>
        /\ \A l \in Listed(snap.read) :
               l.e.inuse =>
                   /\ <<l.e.n, l.e.g>> \in DOMAIN pdf.object_store
                   /\ (\A m \in Listed(snap.read) :
                           (m.e.inuse /\ m.e.n = l.e.n /\ m.e.g = l.e.g) => m.x <= l.x)
                      => Fmt(pdf, pdf.heap[pdf.object_store[<<l.e.n, l.e.g>>]].contents)
                             = Fmt(pdf, ParseIndirectObject(snap.read, l.e.item).val)
        /\ \A key \in DOMAIN pdf.object_store :
               \E l \in Listed(snap.read) : l.e.inuse /\ key = <<l.e.n, l.e.g>>

\* the indirect objects add_pdf_object has created: attached and in use
Created(d) == {i \in 1..Len(d.heap) : d.heap[i].attached /\ ~d.heap[i].free}

C14_FailedReadLeavesEmpty ==
    (last.op = "read" /\ err # "") =>
        /\ Len(pdf.sections) = 0
        /\ DOMAIN pdf.object_store = {}
        /\ pdf.catalog = 0

\* C15: for every name atom that holds a byte outside the allowed set,
\* formatting the name (each such byte written as #HH) and parsing the bytes
\* with parse_pdf_object returns a PdfName equal to the atom.
C15_NameRoundTrip ==
    (/\ snap.kind = "name"
     /\ snap.phase = "parsed"
     /\ \E i \in 1..Len(snap.value) : snap.value[i] \notin ALLOWED_NAME_CHARS)
        => /\ err = ""
           /\ Len(snap.out) = 1
           /\ snap.out[1].t = "name"
           /\ snap.out[1].v = snap.value

\* float(x) of a number operand, as text
NumberText(v) == IF v.t = "int" THEN FloatText(Str(v.v)) ELSE v.v

\* a == b for two operands: numbers by their value, strings and names by
\* their text, lists item by item
RECURSIVE SameOperand(_, _)
SameOperand(a, b) ==
    IF a.t \in {"int", "real"}
    THEN b.t \in {"int", "real"} /\ NumberText(a) = NumberText(b)
    ELSE IF a.t \in {"str", "name", "hex"}
    THEN b.t \in {"str", "name", "hex"} /\ a.v = b.v
    ELSE IF a.t = "arr"
    THEN /\ b.t = "arr"
         /\ Len(a.v) = Len(b.v)
         /\ \A k \in 1..Len(a.v) : SameOperand(a.v[k], b.v[k])
    ELSE a.t = b.t

\* two operators of the same class with the same operands and, for an
\* object, the same operators inside
RECURSIVE SameOperator(_, _)
SameOperator(a, b) ==
    /\ a.op = b.op
    /\ Len(a.args) = Len(b.args)
    /\ \A k \in 1..Len(a.args) : SameOperand(a.args[k], b.args[k])
    /\ Len(a.ops) = Len(b.ops)
    /\ \A k \in 1..Len(a.ops) : SameOperator(a.ops[k], b.ops[k])

\* C16: for every content stream made of the supported operators, the
\* operators format, and parsing the formatted operators yields the same
\* operator sequence, with the same nesting and the same operands.
C16_OperatorRoundTrip ==
    (snap.kind = "contents" /\ snap.phase \in {"formatted", "parsed"})
        => /\ err = ""
           /\ snap.phase = "parsed"
                => /\ Len(snap.out) = Len(snap.contents)
                   /\ \A k \in 1..Len(snap.out) :
                          SameOperator(snap.out[k], Contents(snap.contents)[k])

\* C17: when the parser of contents meets a token that is no operator it
\* knows and no value, the parse does not fail, and formatting what was
\* parsed gives the operands and the operator back.
C17_UnknownOperatorKept ==
    (snap.kind = "contents bytes" /\ snap.case = "unknown" /\ snap.phase = "parsed")
        => /\ err = ""
           /\ ContentsBytes(snap.out).err = ""
           /\ Split(ContentsBytes(snap.out).bytes) = Split(snap.value)

\* C18: an operator the parser knows, met with a number of operands that is
\* not its arity, at top level, in a text object or in a path object, and
\* operands left over at the end of the contents, raise PdfParseError.
C18_ArityMismatchRaises ==
    (/\ snap.kind = "contents bytes"
     /\ snap.case \in {"arity", "leftover"}
     /\ snap.phase = "parsed")
        => err = "PdfParseError"

\* C19: parse_pdf_object ends on every input, and on an input that ends
\* inside a literal string, a hex string, an array or a dictionary, or that
\* holds a hex string with a character that is no hex digit, it raises
\* PdfParseError.
C19_UnterminatedRaisesParseError ==
    (snap.kind = "object" /\ snap.phase = "parsed")
        => /\ err # "Hang"
           /\ snap.case # "closed" => err = "PdfParseError"

\* the bytes written between the stream line at index s of b and the
\* endstream line after it, not counting the line ends around them
PayloadBytes(b, s) ==
    Bind(CHOOSE e \in LinesEqual(b, K_endstream) :
             e > s /\ \A y \in LinesEqual(b, K_endstream) : y > s => e <= y, LAMBDA e :
        e - s - Len(K_stream) - 2)

\* the number written after the last /Length before index s of b
LengthWritten(b, s) ==
    Bind(<<"/">> \o S_Length \o <<" ">>, LAMBDA key :
    Bind({l \in 1..s : SubSeq(b, l, l + Len(key) - 1) = key}, LAMBDA at :
        NumberAt(b, (CHOOSE l \in at : \A y \in at : y <= l) + Len(key))))

\* C20: in a written file the /Length of every stream dictionary is the
\* number of bytes written between its stream line and its endstream line.
C20_LengthIsByteCount ==
    (last.op = "write" /\ err = "")
        => \A s \in LinesEqual(buf, K_stream) : LengthWritten(buf, s) = PayloadBytes(buf, s)


\* the payload of a formatted stream: the bytes between its stream line and
\* its endstream line
PayloadWritten(b) ==
    Bind(CHOOSE s \in LinesEqual(b, K_stream) : \A y \in LinesEqual(b, K_stream) : s <= y,
         LAMBDA s : SubSeq(b, s + Len(K_stream) + 1, Len(b) - Len(K_endstream) - 1))

\* C21: a stream whose Filter names only supported filters is formatted
\* without an exception, and parsing the bytes written gives a stream whose
\* contents have the bytes of the original contents; formatting a stream
\* with a Filter name outside the supported set raises PdfParseError.
C21_FiltersRoundTrip ==
    snap.kind = "stream" =>
        LET known == \A k \in 1..Len(snap.filters) : snap.filters[k] \in SupportedFilters
        IN  /\ snap.phase = "formatted" => err = (IF known THEN "" ELSE "PdfParseError")
            /\ snap.phase = "parsed" =>
                   /\ err = ""
                   /\ Len(snap.out) = 1
                   /\ snap.out[1].t = "stream"
                   /\ ContentsBytes(snap.out[1].ops).bytes
                          = ContentsBytes(Contents(snap.contents)).bytes


\* C22: parse_pdf_object on a dictionary, the stream line, Length bytes
\* that hold the operator q and the endstream line returns a stream with
\* that dictionary and the one operator q; without the endstream line it
\* raises PdfParseError.
C22_StreamParsed ==
    (snap.kind = "object" /\ snap.phase = "parsed") =>
        /\ snap.case = "stream" =>
               /\ err = ""
               /\ Len(snap.out) = 1
               /\ snap.out[1].t = "stream"
               /\ DictHas(snap.out[1].d, S_Length)
               /\ Len(snap.out[1].ops) = 1
               /\ snap.out[1].ops[1].op = "q"
        /\ snap.case = "stream open" => err = "PdfParseError"


\* the objects at a and b of the heap have equal attributes, and so have
\* the objects their next_free_object leads to, n objects far
RECURSIVE SameGraph(_, _, _, _)
SameGraph(heap, a, b, n) ==
    \/ n = 0
    \/ a = 0 /\ b = 0
    \/ /\ a # 0
       /\ b # 0
       /\ [heap[a] EXCEPT !.next_free_object = 0] = [heap[b] EXCEPT !.next_free_object = 0]
       /\ SameGraph(heap, heap[a].next_free_object, heap[b].next_free_object, n - 1)

\* C23: clone returns without an exception; the object it returns is a new
\* one, its attributes and those of the objects it leads to are equal to
\* the original's, and the objects that were there before are as they were.
C23_CloneCopies ==
    /\ last.op = "clone" =>
           /\ err = ""
           /\ last.ret > Len(snap.objects)
           /\ SameGraph(pdf.objects, last.page, last.ret, Len(pdf.objects))
           /\ SubSeq(pdf.objects, 1, Len(snap.objects)) = snap.objects
    /\ last.op = "clone contents" =>
           /\ err = ""
           /\ snap.out = <<pdf.objects[last.page].contents>>


\* C24: PdfFile.parse comes to an end on every file it is given: it returns
\* or raises, also for a file whose /Prev leads back to a section that was
\* parsed before.
C24_ParseTerminates == last.op = "read" => err # "Hang"


\* the tokens of b after offset i, each with the offset after its last
\* byte: a token is one delimiter, or the longest run of bytes that are
\* neither whitespace nor delimiters
RECURSIVE Tokenized(_, _)
Tokenized(b, i) ==
    LET s == FirstNotIn(b, i + 1, Len(b), WhitespaceChars)
        e == FirstIn(b, s, Len(b), WhitespaceChars \cup Delimiters)
    IN  IF s > Len(b) THEN <<>>
        ELSE IF b[s] \in Delimiters THEN <<[tok |-> <<b[s]>>, pos |-> s]>> \o Tokenized(b, s)
        ELSE <<[tok |-> SubSeq(b, s, e - 1), pos |-> e - 1]>> \o Tokenized(b, e - 1)


\* C25: read_tokens of parsing.py gives, for every buffer, start and block
\* size, the tokens of the rest of the buffer in their order, none of them
\* empty, and each time the cursor is right after the last byte of the
\* token it gave.
C25_TokensAsWhole ==
    snap.reader = "parsing" =>
        /\ err = ""
        /\ IsPrefix(snap.out, Tokenized(buf, snap.start))
        /\ snap.phase = "end" => snap.out = Tokenized(buf, snap.start)
        /\ \A k \in 1..Len(snap.out) :
               /\ snap.out[k].tok # <<>>
               /\ snap.out[k].pos >= Len(snap.out[k].tok)
               /\ SubSeq(buf, snap.out[k].pos - Len(snap.out[k].tok) + 1, snap.out[k].pos)
                      = snap.out[k].tok

\* C25 witness: a run from offset 1 with blocks of one byte has come to its
\* end and has given several tokens, one of them longer than a block.
C25_Witness ==
    /\ snap.reader = "parsing"
    /\ snap.phase = "end"
    /\ snap.block_size = 1
    /\ snap.start = 1
    /\ Len(snap.out) >= 2
    /\ \E k \in 1..Len(snap.out) : Len(snap.out[k].tok) >= 2

\* the values a run has given, without the cursors
Given == [k \in 1..Len(snap.out) |-> snap.out[k].tok]

\* C26: read_tokens of utils.py and of pdf.py come to an end on every
\* buffer and give each token of the buffer once and whole, whatever the
\* block size.
C26_TokensOnceAndWhole ==
    snap.reader \in {"utils", "pdf"} =>
        LET ref == Tokenized(buf, snap.start)
            tokens == [k \in 1..Len(ref) |-> ref[k].tok]
        IN  /\ err = ""
            /\ IsPrefix(Given, tokens)
            /\ snap.phase = "end" => Given = tokens

\* the lines of b after offset i, each with its terminator and the offset
\* after it
LinesFrom(b, i) ==
    LET ls == SplitLines(SubSeq(b, i + 1, Len(b)), 1)
    IN  [k \in 1..Len(ls) |->
            [line |-> ls[k], pos |-> i + Len(Concat(SubSeq(ls, 1, k)))]]

\* C27: read_lines gives, for every buffer, start and block size, the lines
\* of the rest of the buffer in their order, each once, and each time the
\* cursor is at the first byte after the line it gave.  An empty line after
\* the last one is let pass.
C27_LinesForward ==
    snap.reader = "lines" =>
        LET ref == LinesFrom(buf, snap.start)
        IN  /\ err = ""
            /\ \A k \in 1..Len(snap.out) :
                   IF k <= Len(ref)
                   THEN snap.out[k].tok = Strip(ref[k].line) /\ snap.out[k].pos = ref[k].pos
                   ELSE k = Len(ref) + 1 /\ snap.out[k].tok = <<>>
            /\ snap.phase = "end" => Len(snap.out) >= Len(ref)

\* C28: reverse_read_lines gives the lines of the buffer from the last to
\* the first, whatever the block size, and the search for the last trailer
\* leaves the cursor where the trailer parse reads that trailer: it gives
\* the integer written after startxref, 123.  An empty line after the first
\* one is let pass.
C28_ReverseToTrailer ==
    /\ snap.reader = "reverse" =>
           LET ref == Reversed(LinesFrom(buf, 0))
           IN  /\ err = ""
               /\ \A k \in 1..Len(snap.out) :
                      IF k <= Len(ref) THEN snap.out[k].tok = Strip(ref[k].line)
                      ELSE k = Len(ref) + 1 /\ snap.out[k].tok = <<>>
               /\ snap.phase = "end" => Len(snap.out) >= Len(ref)
    /\ (snap.reader = "trailer" /\ snap.phase # "running") => (err = "" /\ last.ret = 123)


\* C29: a font added to a page, by add_font or by add_text, goes into the
\* /Font resources of that page only: the /Font entries of every other page
\* are after the call what they were before it.
C29_AliasesPerPage ==
    [][(last'.op \in {"add_font", "add_text"} /\ err' = "") =>
           \A q \in 1..Len(pdf.pages) :
               q # last'.page => FontResources(pdf', q) = FontResources(pdf, q)]_vars


====
